---- MODULE Spec2Model ----
(***************************************************************************)
(* A model of the r2index metadata index and download analytics:           *)
(* src/db/queries.ts (file CRUD, upsert, schema) and the download log      *)
(* (createDownload, getTimeSeries), with the /analytics/timeseries route.  *)
(*                                                                         *)
(* Epoch-millisecond values exceed 32 bits, so every number of the time    *)
(* domain is kept as a two-limb integer [d, ms] of value d * DAY_MS + ms   *)
(* with 0 <= ms < DAY_MS.  A month key such as 202402 is the same kind of  *)
(* number, with d = 0.                                                     *)
(***************************************************************************)
EXTENDS Integers, Sequences, FiniteSets, TLC

VARIABLES
    files,      \* table files: a set of rows
    fileTags,   \* table file_tags: a set of <<file_id, tag>>
    nextId,     \* the next id crypto.randomUUID() hands out for a file
    procs,      \* the requests in flight on the files table, by process
    downloads,  \* table file_downloads: the rows in insertion order
    now,        \* the last value Date.now() returned
    dlResp,     \* the response of the last createDownload
    tsCall,     \* the last getTimeSeries call: its arguments and its result
    httpResp,   \* the last response of GET /analytics/timeseries
    lastCleanup, \* the cleanup runs since the last createDownload
    anaCall     \* the last getSummary / getDownloadsByIp / getUserAgentStats call

vars == <<files, fileTags, nextId, procs, downloads, now, dlResp, tsCall, httpResp,
          lastCleanup, anaCall>>

Null == "null"
Undefined == "undefined"

\* a file id that is SQL NULL (the ids crypto.randomUUID() hands out are 1, 2, ...)
NoId == 0

-----------------------------------------------------------------------------
(* Two-limb integers *)

HOUR_MS == 3600000
DAY_MS == 86400000

Wide(d, ms) == [d |-> d, ms |-> ms]

\* a small non-negative integer as a two-limb integer
WideOfInt(n) == [d |-> n \div DAY_MS, ms |-> n % DAY_MS]

WLt(a, b) == a.d < b.d \/ (a.d = b.d /\ a.ms < b.ms)
WLe(a, b) == a = b \/ WLt(a, b)

\* a + n for 0 <= n <= DAY_MS
WPlus(a, n) ==
    IF a.ms + n >= DAY_MS THEN [d |-> a.d + 1, ms |-> a.ms + n - DAY_MS]
    ELSE [d |-> a.d, ms |-> a.ms + n]

\* Math.floor(x / g), for g a divisor of DAY_MS
FloorQuot(x, g) == x.d * (DAY_MS \div g) + (x.ms \div g)

\* q * g as a two-limb integer, for g a divisor of DAY_MS
WideTimes(q, g) ==
    [d |-> q \div (DAY_MS \div g), ms |-> (q % (DAY_MS \div g)) * g]

\* Math.floor(x / g) * g
FloorTo(x, g) == WideTimes(FloorQuot(x, g), g)

-----------------------------------------------------------------------------
(* Date.prototype.getUTCFullYear / getUTCMonth of new Date(t) *)

CivilFromDays(days) ==
    LET z == days + 719468
        era == z \div 146097
        doe == z - era * 146097
        yoe == (doe - doe \div 1460 + doe \div 36524 - doe \div 146096) \div 365
        doy == doe - (365 * yoe + yoe \div 4 - yoe \div 100)
        mp == (5 * doy + 2) \div 153
        m == IF mp < 10 THEN mp + 3 ELSE mp - 9
        y == yoe + era * 400 + (IF m <= 2 THEN 1 ELSE 0)
    IN  [year |-> y, month |-> m]

getUTCFullYear(t) == CivilFromDays(t.d).year

\* 0 (January) .. 11 (December)
getUTCMonth(t) == CivilFromDays(t.d).month - 1

-----------------------------------------------------------------------------
(* The download log *)

\* faulty variant: the hour key rounded up, Math.ceil(downloadedAt / 3600000)
computeBucketsCeilHour(downloadedAt) ==
    [hour_bucket |-> IF FloorTo(downloadedAt, HOUR_MS) = downloadedAt
                     THEN downloadedAt
                     ELSE WPlus(FloorTo(downloadedAt, HOUR_MS), HOUR_MS),
     day_bucket |-> FloorTo(downloadedAt, DAY_MS),
     month_bucket |-> WideOfInt(getUTCFullYear(downloadedAt) * 100
                                + (getUTCMonth(downloadedAt) + 1))]

computeBuckets(downloadedAt) ==
    [hour_bucket |-> FloorTo(downloadedAt, HOUR_MS),
     day_bucket |-> FloorTo(downloadedAt, DAY_MS),
     month_bucket |-> WideOfInt(getUTCFullYear(downloadedAt) * 100
                                + (getUTCMonth(downloadedAt) + 1))]

getBucketColumn(scale) ==
    CASE scale = "hour" -> "hour_bucket"
      [] scale = "day" -> "day_bucket"
      [] scale = "month" -> "month_bucket"

\* a JavaScript truthiness test of an optional string
Truthy(v) == v # Undefined /\ v # Null /\ v # ""

LocationOf(r) ==
    [bucket |-> r.bucket, remote_path |-> r.remote_path,
     remote_filename |-> r.remote_filename, remote_version |-> r.remote_version]

\* the conjunction of the conditions buildFileConditions pushes, on row d
buildFileConditions(filter, d) ==
    /\ Truthy(filter.bucket) => d.bucket = filter.bucket
    /\ Truthy(filter.remote_path) => d.remote_path = filter.remote_path
    /\ Truthy(filter.remote_filename) => d.remote_filename = filter.remote_filename
    /\ Truthy(filter.remote_version) => d.remote_version = filter.remote_version

\* the row createDownload inserts and returns, for Date.now() = t
DownloadRow(input, t, id) ==
    LET timeBuckets == computeBuckets(t)
    IN  [id |-> id,
         bucket |-> input.bucket,
         remote_path |-> input.remote_path,
         remote_filename |-> input.remote_filename,
         remote_version |-> input.remote_version,
         ip_address |-> input.ip_address,
         user_agent |-> IF input.user_agent = Undefined THEN Null ELSE input.user_agent,
         downloaded_at |-> t,
         hour_bucket |-> timeBuckets.hour_bucket,
         day_bucket |-> timeBuckets.day_bucket,
         month_bucket |-> timeBuckets.month_bucket]

-----------------------------------------------------------------------------
(* getTimeSeries *)

\* faulty variant: the month key built from the 0-based getUTCMonth()
rangeBucketMonthFromZero(x, scale) ==
    IF scale = "month"
    THEN WideOfInt(getUTCFullYear(x) * 100 + getUTCMonth(x))
    ELSE IF scale = "hour" THEN FloorTo(x, HOUR_MS) ELSE FloorTo(x, DAY_MS)

\* startBucket / endBucket: start or end converted to a key of the scale
rangeBucket(x, scale) ==
    IF scale = "month"
    THEN WideOfInt(getUTCFullYear(x) * 100 + (getUTCMonth(x) + 1))
    ELSE IF scale = "hour" THEN FloorTo(x, HOUR_MS) ELSE FloorTo(x, DAY_MS)

\* whereClause on row d: the file conditions, then bucketCol >= ? AND bucketCol <= ?
whereClause(d, filter, bucketCol, startBucket, endBucket) ==
    /\ buildFileConditions(filter, d)
    /\ WLe(startBucket, d[bucketCol])
    /\ WLe(d[bucketCol], endBucket)

\* faulty variant: the join leaves out f.bucket = d.bucket
joinedFileIdsNoBucket(fls, d) ==
    LET m == {f \in fls : /\ f.remote_path = d.remote_path
                           /\ f.remote_filename = d.remote_filename
                           /\ f.remote_version = d.remote_version}
    IN  IF m = {} THEN {NoId} ELSE {f.id : f \in m}

\* LEFT JOIN files f ON the four location columns: the ids joined to row d
joinedFileIds(fls, d) ==
    LET m == {f \in fls : /\ f.bucket = d.bucket
                           /\ f.remote_path = d.remote_path
                           /\ f.remote_filename = d.remote_filename
                           /\ f.remote_version = d.remote_version}
    IN  IF m = {} THEN {NoId} ELSE {f.id : f \in m}

\* the rows of the per-file query before ORDER BY: one per (time bucket, location)
perFileGroups(dls, fls, filter, bucketCol, startBucket, endBucket) ==
    LET J == {j \in (1..Len(dls)) \X ({NoId} \cup {f.id : f \in fls}) :
                /\ whereClause(dls[j[1]], filter, bucketCol, startBucket, endBucket)
                /\ j[2] \in joinedFileIds(fls, dls[j[1]])}
        groupOf(j) == <<dls[j[1]][bucketCol], LocationOf(dls[j[1]])>>
        G == {groupOf(j) : j \in J}
        members(g) == {j \in J : groupOf(j) = g}
    IN  {[time_bucket |-> g[1],
          file_id |-> CHOOSE id \in {j[2] : j \in members(g)} : TRUE,
          bucket |-> g[2].bucket,
          remote_path |-> g[2].remote_path,
          remote_filename |-> g[2].remote_filename,
          remote_version |-> g[2].remote_version,
          downloads |-> Cardinality(members(g)),
          unique_downloads |-> Cardinality({dls[j[1]].ip_address : j \in members(g)})]
         : g \in G}

\* faulty variant: ORDER BY d.bucketCol, downloads ASC
rowBeforeAscending(a, b) ==
    \/ WLt(a.time_bucket, b.time_bucket)
    \/ a.time_bucket = b.time_bucket /\ a.downloads < b.downloads

\* ORDER BY d.bucketCol, downloads DESC
rowBefore(a, b) ==
    \/ WLt(a.time_bucket, b.time_bucket)
    \/ a.time_bucket = b.time_bucket /\ a.downloads > b.downloads

\* every order the store may return the rows in: ties are in any order
RECURSIVE orderedResults(_)
orderedResults(S) ==
    IF S = {} THEN {<<>>}
    ELSE UNION {{<<x>> \o rest : rest \in orderedResults(S \ {x})}
                : x \in {y \in S : \A z \in S : ~rowBefore(z, y)}}

\* faulty variant: the total is added inside the cap test, so it counts the kept rows only
RECURSIVE groupByTimeBucketKeptOnly(_, _, _, _)
groupByTimeBucketKeptOnly(rows, i, timeBucketMap, filesLimit) ==
    IF i > Len(rows) THEN timeBucketMap
    ELSE LET row == rows[i]
             m0 == IF row.time_bucket \in DOMAIN timeBucketMap THEN timeBucketMap
                   ELSE timeBucketMap @@ (row.time_bucket :> [files |-> <<>>, total |-> 0, unique |-> 0])
             timeBucket == m0[row.time_bucket]
             keep == Len(timeBucket.files) < filesLimit
             m1 == [m0 EXCEPT ![row.time_bucket] =
                        [files |-> IF keep
                                   THEN Append(timeBucket.files,
                                               [id |-> row.file_id,
                                                bucket |-> row.bucket,
                                                remote_path |-> row.remote_path,
                                                remote_filename |-> row.remote_filename,
                                                remote_version |-> row.remote_version,
                                                downloads |-> row.downloads,
                                                unique_downloads |-> row.unique_downloads])
                                   ELSE timeBucket.files,
                         total |-> IF keep THEN timeBucket.total + row.downloads
                                   ELSE timeBucket.total,
                         unique |-> timeBucket.unique]]
         IN  groupByTimeBucketKeptOnly(rows, i + 1, m1, filesLimit)

\* the loop over result.results: total counts every row, files keeps the first filesLimit
RECURSIVE groupByTimeBucket(_, _, _, _)
groupByTimeBucket(rows, i, timeBucketMap, filesLimit) ==
    IF i > Len(rows) THEN timeBucketMap
    ELSE LET row == rows[i]
             m0 == IF row.time_bucket \in DOMAIN timeBucketMap THEN timeBucketMap
                   ELSE timeBucketMap @@ (row.time_bucket :> [files |-> <<>>, total |-> 0, unique |-> 0])
             timeBucket == m0[row.time_bucket]
             kept == IF Len(timeBucket.files) < filesLimit
                     THEN Append(timeBucket.files,
                                 [id |-> row.file_id,
                                  bucket |-> row.bucket,
                                  remote_path |-> row.remote_path,
                                  remote_filename |-> row.remote_filename,
                                  remote_version |-> row.remote_version,
                                  downloads |-> row.downloads,
                                  unique_downloads |-> row.unique_downloads])
                     ELSE timeBucket.files
             m1 == [m0 EXCEPT ![row.time_bucket] =
                        [files |-> kept, total |-> timeBucket.total + row.downloads,
                         unique |-> timeBucket.unique]]
         IN  groupByTimeBucket(rows, i + 1, m1, filesLimit)

\* faulty variant: COUNT(ip_address) without DISTINCT
uniqueQueryNotDistinct(dls, filter, bucketCol, startBucket, endBucket) ==
    LET M == {i \in 1..Len(dls) :
                whereClause(dls[i], filter, bucketCol, startBucket, endBucket)}
    IN  {[bucket |-> k,
          unique_downloads |-> Cardinality({x \in M : dls[x][bucketCol] = k})]
         : k \in {dls[i][bucketCol] : i \in M}}

\* uniqueQuery: per time bucket, COUNT(DISTINCT ip_address) over the matching rows
uniqueQuery(dls, filter, bucketCol, startBucket, endBucket) ==
    LET M == {i \in 1..Len(dls) :
                whereClause(dls[i], filter, bucketCol, startBucket, endBucket)}
    IN  {[bucket |-> k,
          unique_downloads |-> Cardinality({dls[i].ip_address :
                                              i \in {x \in M : dls[x][bucketCol] = k}})]
         : k \in {dls[i][bucketCol] : i \in M}}

\* the loop over uniqueResult.results
applyUnique(timeBucketMap, uniqueResult) ==
    [k \in DOMAIN timeBucketMap |->
        IF \E r \in uniqueResult : r.bucket = k
        THEN [timeBucketMap[k] EXCEPT
                 !.unique = (CHOOSE r \in uniqueResult : r.bucket = k).unique_downloads]
        ELSE timeBucketMap[k]]

\* faulty variant: sort(([a], [b]) => b - a)
RECURSIVE sortEntriesDescending(_, _)
sortEntriesDescending(timeBucketMap, keys) ==
    IF keys = {} THEN <<>>
    ELSE LET k == CHOOSE x \in keys : \A y \in keys : WLe(y, x)
         IN  <<[timestamp |-> k,
                files |-> timeBucketMap[k].files,
                total_downloads |-> timeBucketMap[k].total,
                total_unique_downloads |-> timeBucketMap[k].unique]>>
             \o sortEntriesDescending(timeBucketMap, keys \ {k})

\* Array.from(entries).sort(([a], [b]) => a - b).map(...)
RECURSIVE sortEntries(_, _)
sortEntries(timeBucketMap, keys) ==
    IF keys = {} THEN <<>>
    ELSE LET k == CHOOSE x \in keys : \A y \in keys : WLe(x, y)
         IN  <<[timestamp |-> k,
                files |-> timeBucketMap[k].files,
                total_downloads |-> timeBucketMap[k].total,
                total_unique_downloads |-> timeBucketMap[k].unique]>>
             \o sortEntries(timeBucketMap, keys \ {k})

\* the results getTimeSeries may return on store (dls, fls)
getTimeSeries(dls, fls, start, end, scale, filter, filesLimit) ==
    LET bucketCol == getBucketColumn(scale)
        startBucket == rangeBucket(start, scale)
        endBucket == rangeBucket(end, scale)
        uniqueResult == uniqueQuery(dls, filter, bucketCol, startBucket, endBucket)
    IN  {LET timeBucketMap == applyUnique(groupByTimeBucket(rows, 1, <<>>, filesLimit),
                                          uniqueResult)
         IN  sortEntries(timeBucketMap, DOMAIN timeBucketMap)
         : rows \in orderedResults(
               perFileGroups(dls, fls, filter, bucketCol, startBucket, endBucket))}

-----------------------------------------------------------------------------
(* Bounds and input sets *)

MaxDownloads == 3
MaxCap == 2
MaxRangeDownloads == 2

Loc(b, p, f, v) ==
    [bucket |-> b, remote_path |-> p, remote_filename |-> f, remote_version |-> v]

LocA == Loc("b1", "p1", "f1", "v1")
LocB == Loc("b1", "p1", "f2", "v1")
LocC == Loc("b2", "p1", "f1", "v1")

DownloadInput(loc, ip, ua) ==
    [bucket |-> loc.bucket, remote_path |-> loc.remote_path,
     remote_filename |-> loc.remote_filename, remote_version |-> loc.remote_version,
     ip_address |-> ip, user_agent |-> ua]

FileFilter(b, p, f, v) ==
    [bucket |-> b, remote_path |-> p, remote_filename |-> f, remote_version |-> v]

NoFilter == FileFilter(Undefined, Undefined, Undefined, Undefined)

\* 2024-01-31T23:59:59.999Z, 2024-02-01T00:00:00.000Z, 2024-02-01T00:30:00.000Z,
\* 2024-02-01T01:00:00.000Z, 2024-02-29T12:00:00.000Z, 2024-12-31T23:59:59.999Z,
\* 2025-01-01T00:00:00.000Z
T_JanEnd == Wide(19753, 86399999)
T_Feb1 == Wide(19754, 0)
T_Feb1m30 == Wide(19754, 1800000)
T_Feb1h1 == Wide(19754, 3600000)
T_Feb29 == Wide(19782, 43200000)
T_Dec31 == Wide(20088, 86399999)
T_Jan1 == Wide(20089, 0)

Scales == {"hour", "day", "month"}

TSInstants == {T_JanEnd, T_Feb1, T_Feb1h1}
TSInputs == {DownloadInput(LocA, "ip1", "ua1"), DownloadInput(LocA, "ip2", "ua1"),
             DownloadInput(LocB, "ip1", "ua1")}
TSFilters == {NoFilter, FileFilter("b1", Undefined, "f1", Undefined)}
TSRanges == {<<T_JanEnd, T_Feb1h1>>, <<T_Feb1, T_Feb1>>}

-----------------------------------------------------------------------------
(* The files table *)

FileRow(id, input, created, updated) ==
    [id |-> id,
     name |-> IF input.name = Undefined THEN Null ELSE input.name,
     bucket |-> input.bucket,
     category |-> input.category,
     entity |-> input.entity,
     extension |-> input.extension,
     media_type |-> input.media_type,
     remote_path |-> input.remote_path,
     remote_filename |-> input.remote_filename,
     remote_version |-> input.remote_version,
     deprecated |-> 0,
     deprecation_reason |-> "",
     created |-> created,
     updated |-> updated]

\* an optional field of an input whose value is not a string: left out, or given
Absent == [given |-> FALSE]
Some(v) == [given |-> TRUE, value |-> v]

CreateFileInput(loc, name, tags) ==
    [name |-> name, bucket |-> loc.bucket, category |-> "c1", entity |-> "e1",
     extension |-> "x1", media_type |-> "m1", remote_path |-> loc.remote_path,
     remote_filename |-> loc.remote_filename, remote_version |-> loc.remote_version,
     tags |-> tags]

-----------------------------------------------------------------------------
(* Actions of the download log.  One request is served at a time: a call    *)
(* runs on the store as it is, and its result is held until it is returned. *)

NoCall == [called |-> FALSE]
NoResp == [status |-> 0]
NoCleanup == [runs |-> 0]
NoRow == [id |-> 0]

Idle == tsCall = NoCall /\ httpResp = NoResp /\ anaCall = NoCall

\* createDownload, with crypto.randomUUID() = nextId and Date.now() = t
CreateDownload(input, t) ==
    /\ Idle
    /\ WLe(now, t)
    /\ LET row == DownloadRow(input, t, nextId)
       IN  /\ downloads' = Append(downloads, row)
           /\ dlResp' = row
    /\ nextId' = nextId + 1
    /\ now' = t
    /\ lastCleanup' = NoCleanup
    /\ UNCHANGED <<files, fileTags, procs, tsCall, httpResp, anaCall>>

\* a call of getTimeSeries on the current store
GetTimeSeries(start, end, scale, filter, filesLimit) ==
    /\ Idle
    /\ \E out \in getTimeSeries(downloads, files, start, end, scale, filter, filesLimit) :
          tsCall' = [called |-> TRUE, start |-> start, end |-> end, scale |-> scale,
                     filter |-> filter, filesLimit |-> filesLimit, out |-> out]
    /\ UNCHANGED <<files, fileTags, nextId, procs, downloads, now, dlResp, httpResp, lastCleanup, anaCall>>

\* the result is handed to the caller
Return ==
    /\ ~Idle
    /\ tsCall' = NoCall
    /\ httpResp' = NoResp
    /\ anaCall' = NoCall
    /\ UNCHANGED <<files, fileTags, nextId, procs, downloads, now, dlResp, lastCleanup>>

TSFiles == {FileRow(1, CreateFileInput(LocA, "n1", Absent), T_JanEnd, T_JanEnd)}

InitTS ==
    /\ files = TSFiles
    /\ fileTags = {}
    /\ nextId = 2
    /\ procs = <<>>
    /\ downloads = <<>>
    /\ now = T_JanEnd
    /\ dlResp = NoRow
    /\ tsCall = NoCall
    /\ httpResp = NoResp
    /\ lastCleanup = NoCleanup
    /\ anaCall = NoCall

NextTS ==
    \/ \E input \in TSInputs, t \in TSInstants :
          Len(downloads) < MaxDownloads /\ CreateDownload(input, t)
    \/ \E r \in TSRanges, scale \in Scales, filter \in TSFilters, cap \in 0..MaxCap :
          GetTimeSeries(r[1], r[2], scale, filter, cap)
    \/ Return

SpecTS == InitTS /\ [][NextTS]_vars

-----------------------------------------------------------------------------
(* GET /analytics/timeseries.  A query parameter is absent, a string of     *)
(* decimal digits (kept as the number it denotes) or some other text.       *)

FILES_LIMIT_DEFAULT == 100
FILES_LIMIT_MAX == 1000

RawAbsent == [kind |-> "undefined"]
RawText == [kind |-> "text"]
RawDigits(n) == [kind |-> "digits", val |-> n]

\* z.string().regex(/^\d+$/)
IsDigits(raw) == raw.kind = "digits"

\* analyticsParamsSchema.safeParse(params).success
analyticsParamsValid(params) ==
    /\ IsDigits(params.start)
    /\ IsDigits(params.end)
    /\ params.scale \in {Undefined} \cup Scales
    /\ params.limit = RawAbsent \/ IsDigits(params.limit)
    /\ params.offset = RawAbsent \/ IsDigits(params.offset)

\* parsed.data: the keys of the schema; any other key of params is stripped
analyticsParamsData(params) ==
    [start |-> params.start, end |-> params.end, scale |-> params.scale,
     bucket |-> Undefined,
     remote_path |-> params.remote_path, remote_filename |-> params.remote_filename,
     remote_version |-> params.remote_version, limit |-> params.limit,
     ip |-> params.ip, offset |-> params.offset]

\* Math.min(parseInt(limit || '100', 10), 1000)
filesLimitOf(limit) ==
    LET n == IF limit = RawAbsent THEN FILES_LIMIT_DEFAULT ELSE limit.val
    IN  IF n < FILES_LIMIT_MAX THEN n ELSE FILES_LIMIT_MAX

\* app.get('/timeseries', ...)
TimeseriesRoute(params) ==
    /\ Idle
    /\ IF ~analyticsParamsValid(params)
       THEN /\ httpResp' = [status |-> 400, params |-> params]
            /\ tsCall' = NoCall
       ELSE LET data == analyticsParamsData(params)
                scale == IF data.scale = Undefined THEN "day" ELSE data.scale
                filter == [bucket |-> data.bucket, remote_path |-> data.remote_path,
                           remote_filename |-> data.remote_filename,
                           remote_version |-> data.remote_version]
                filesLimit == filesLimitOf(data.limit)
            IN  \E out \in getTimeSeries(downloads, files, data.start.val, data.end.val,
                                         scale, filter, filesLimit) :
                    /\ tsCall' = [called |-> TRUE, start |-> data.start.val,
                                  end |-> data.end.val, scale |-> scale, filter |-> filter,
                                  filesLimit |-> filesLimit, out |-> out]
                    /\ httpResp' = [status |-> 200, params |-> params,
                                    scale |-> scale, data |-> out]
    /\ UNCHANGED <<files, fileTags, nextId, procs, downloads, now, dlResp, lastCleanup, anaCall>>

LocD == Loc("b2", "p1", "f1", "v2")

RangeInstants == {T_JanEnd, T_Feb1, T_Feb1m30, T_Feb29, T_Dec31, T_Jan1}
RangeInputs == {DownloadInput(LocA, "ip1", Undefined), DownloadInput(LocD, "ip2", "ua1")}
RangeRaw == {RawAbsent, RawText, RawDigits(T_JanEnd), RawDigits(T_Feb1m30),
             RawDigits(T_Feb29), RawDigits(T_Jan1)}
RangeRest == {[bucket |-> Undefined, remote_version |-> Undefined, limit |-> RawAbsent],
              [bucket |-> "b1", remote_version |-> "v2", limit |-> RawDigits(1)]}
RangeParams ==
    {[start |-> s, end |-> e, scale |-> sc, bucket |-> r.bucket,
      remote_path |-> Undefined, remote_filename |-> Undefined,
      remote_version |-> r.remote_version, limit |-> r.limit,
      ip |-> Undefined, offset |-> RawAbsent]
     : s \in RangeRaw, e \in RangeRaw, sc \in {Undefined, "year"} \cup Scales, r \in RangeRest}

InitRange ==
    /\ files = TSFiles
    /\ fileTags = {}
    /\ nextId = 2
    /\ procs = <<>>
    /\ downloads = <<>>
    /\ now = T_JanEnd
    /\ dlResp = NoRow
    /\ tsCall = NoCall
    /\ httpResp = NoResp
    /\ lastCleanup = NoCleanup
    /\ anaCall = NoCall

NextRange ==
    \/ \E input \in RangeInputs, t \in RangeInstants :
          Len(downloads) < MaxRangeDownloads /\ CreateDownload(input, t)
    \/ \E params \in RangeParams : TimeseriesRoute(params)
    \/ Return

SpecRange == InitRange /\ [][NextRange]_vars

-----------------------------------------------------------------------------
(* Retention of the download log: POST /maintenance/cleanup-downloads *)

DEFAULT_RETENTION_DAYS == 365

\* faulty variant: DELETE ... LIMIT 1, one old row per run
cleanupOldDownloadsOnePerRun(dls, t, retentionDays) ==
    LET cutoff == Wide(t.d - retentionDays, t.ms)
        old == {i \in 1..Len(dls) : WLt(dls[i].downloaded_at, cutoff)}
        first == IF old = {} THEN 0 ELSE CHOOSE i \in old : \A j \in old : i <= j
        kept == [i \in 1..(Len(dls) - (IF first = 0 THEN 0 ELSE 1)) |->
                    IF first = 0 \/ i < first THEN dls[i] ELSE dls[i + 1]]
    IN  [downloads |-> kept, changes |-> Len(dls) - Len(kept)]

\* faulty variant: DELETE FROM file_downloads WHERE downloaded_at <= ?
cleanupOldDownloadsInclusive(dls, t, retentionDays) ==
    LET cutoff == Wide(t.d - retentionDays, t.ms)
        kept == SelectSeq(dls, LAMBDA d : WLt(cutoff, d.downloaded_at))
    IN  [downloads |-> kept, changes |-> Len(dls) - Len(kept)]

\* cleanupOldDownloads with Date.now() = t: the rows left and result.meta.changes.
\* retentionDays * 24 * 60 * 60 * 1000 is retentionDays whole days.
cleanupOldDownloads(dls, t, retentionDays) ==
    LET cutoff == Wide(t.d - retentionDays, t.ms)
        kept == SelectSeq(dls, LAMBDA d : ~WLt(d.downloaded_at, cutoff))
    IN  [downloads |-> kept, changes |-> Len(dls) - Len(kept)]

\* parseInt(c.env.DOWNLOADS_RETENTION_DAYS || '365', 10), for a variable that
\* is unset or holds a whole number
retentionDaysOf(env) == IF env.given THEN env.value ELSE DEFAULT_RETENTION_DAYS

\* app.post('/maintenance/cleanup-downloads', ...), with Date.now() = t.
\* lastCleanup records the runs made since the last createDownload.
CleanupRoute(env, t) ==
    /\ Idle
    /\ WLe(now, t)
    /\ LET retentionDays == retentionDaysOf(env)
       IN  IF retentionDays <= 0
           THEN /\ httpResp' = [status |-> 400, kind |-> "cleanup", env |-> env,
                                error |-> "DOWNLOADS_RETENTION_DAYS must be positive"]
                /\ UNCHANGED <<downloads, now, lastCleanup, anaCall>>
           ELSE LET r == cleanupOldDownloads(downloads, t, retentionDays)
                IN  /\ downloads' = r.downloads
                    /\ now' = t
                    /\ httpResp' = [status |-> 200, kind |-> "cleanup", env |-> env,
                                    deleted |-> r.changes, retention_days |-> retentionDays]
                    /\ lastCleanup' =
                          [runs |-> IF lastCleanup.runs = 0 THEN 1 ELSE 2,
                           t |-> t, retentionDays |-> retentionDays,
                           deleted |-> r.changes, left |-> r.downloads,
                           before |-> IF lastCleanup.runs = 0 THEN [deleted |-> -1]
                                      ELSE [deleted |-> lastCleanup.deleted,
                                            t |-> lastCleanup.t,
                                            retentionDays |-> lastCleanup.retentionDays]]
    /\ UNCHANGED <<files, fileTags, nextId, procs, dlResp, tsCall, anaCall>>

CleanupInstants == {T_JanEnd, T_Feb1, T_Feb29, T_Jan1}
RetentionEnvs == {Absent, Some(0), Some(-1), Some(1), Some(335)}

NextCleanup ==
    \/ \E input \in RangeInputs, t \in CleanupInstants :
          Len(downloads) < MaxRangeDownloads /\ CreateDownload(input, t)
    \/ \E env \in RetentionEnvs, t \in CleanupInstants : CleanupRoute(env, t)
    \/ Return

SpecCleanup == InitRange /\ [][NextCleanup]_vars

-----------------------------------------------------------------------------
(* The file index: upsertFile, updateFile, deleteFile, deleteFileByRemote.  *)
(* Every awaited statement is one step of the request that issues it; the   *)
(* requests interleave between their statements.  Requests are numbered in  *)
(* order of arrival, and procs[p] is the invocation that serves request p.  *)
(* The columns that upsertFile writes like name (metadata_path, size, the   *)
(* checksums, extra) are left out.                                          *)

MaxRequests == 3
MaxInFlight == 2
MaxTargetId == 2

Procs == 1..MaxRequests
FileInstants == {T_JanEnd, T_Feb1}

NoFile == [id |-> NoId]
NoInput == [tags |-> Absent]

ProcIdle ==
    [op |-> "idle", pc |-> "idle", input |-> NoInput, id |-> NoId, t |-> T_JanEnd,
     created |-> FALSE, raw |-> NoFile, resp |-> NoResp]

ProcClosed == [ProcIdle EXCEPT !.op = "closed", !.pc = "closed"]

InFlight(q) == procs[q].op \notin {"idle", "closed"}

\* request p arrives: those before it have arrived, and fewer than slots
\* requests are being served
CanStart(p, slots) ==
    /\ procs[p].op = "idle"
    /\ \A q \in Procs : q < p => procs[q].op # "idle"
    /\ Cardinality({q \in Procs : InFlight(q)}) < slots

UpdateFileInput(name, bucket, remote_filename, deprecated, tags) ==
    [name |-> name, bucket |-> bucket, category |-> Undefined, entity |-> Undefined,
     extension |-> Undefined, media_type |-> Undefined, remote_path |-> Undefined,
     remote_filename |-> remote_filename, remote_version |-> Undefined,
     deprecated |-> deprecated, deprecation_reason |-> Undefined, tags |-> tags]

\* SELECT id FROM files WHERE bucket = ? AND remote_path = ? AND remote_filename = ?
\* AND remote_version = ?  .first()
selectIdByTuple(fls, input) ==
    LET m == {f \in fls : /\ f.bucket = input.bucket
                           /\ f.remote_path = input.remote_path
                           /\ f.remote_filename = input.remote_filename
                           /\ f.remote_version = input.remote_version}
    IN  IF m = {} THEN NoId ELSE (CHOOSE f \in m : TRUE).id

\* faulty variant: the files table without a unique index
noUniqueIndex(fls, row) == FALSE

\* CREATE UNIQUE INDEX idx_files_remote_unique ON files(remote_path, remote_filename,
\* remote_version): row cannot be stored beside the other rows of fls
idx_files_remote_unique(fls, row) ==
    \E f \in fls : /\ f.id # row.id
                   /\ f.remote_path = row.remote_path
                   /\ f.remote_filename = row.remote_filename
                   /\ f.remote_version = row.remote_version

\* the row of id in fls, or NoFile: SELECT * FROM files WHERE id = ?  .first()
selectById(fls, id) ==
    IF \E f \in fls : f.id = id THEN CHOOSE f \in fls : f.id = id ELSE NoFile

\* SELECT tag FROM file_tags WHERE file_id = ?
selectTags(tgs, id) == {x[2] : x \in {y \in tgs : y[1] = id}}

\* faulty variant: the UPDATE of upsertFile also writes deprecated = 0
upsertUpdateRowUndeprecates(f, input, t) ==
    [f EXCEPT !.name = IF input.name = Undefined THEN Null ELSE input.name,
              !.category = input.category,
              !.entity = input.entity,
              !.extension = input.extension,
              !.media_type = input.media_type,
              !.deprecated = 0,
              !.updated = t]

\* UPDATE files SET name = ?, category = ?, ... , updated = ? WHERE id = ?  (upsertFile)
upsertUpdateRow(f, input, t) ==
    [f EXCEPT !.name = IF input.name = Undefined THEN Null ELSE input.name,
              !.category = input.category,
              !.entity = input.entity,
              !.extension = input.extension,
              !.media_type = input.media_type,
              !.updated = t]

Given(v, old) == IF v = Undefined THEN old ELSE v

\* UPDATE files SET <the fields given>, updated = ? WHERE id = ?  (updateFile)
updateRow(f, input, t) ==
    [f EXCEPT !.name = Given(input.name, @),
              !.bucket = Given(input.bucket, @),
              !.category = Given(input.category, @),
              !.entity = Given(input.entity, @),
              !.extension = Given(input.extension, @),
              !.media_type = Given(input.media_type, @),
              !.remote_path = Given(input.remote_path, @),
              !.remote_filename = Given(input.remote_filename, @),
              !.remote_version = Given(input.remote_version, @),
              !.deprecated = IF ~input.deprecated.given THEN @
                             ELSE IF input.deprecated.value THEN 1 ELSE 0,
              !.deprecation_reason = Given(input.deprecation_reason, @),
              !.updated = t]

\* parseRecord, with the tags getFileById attaches
parseRecord(raw, tags) ==
    [id |-> raw.id, name |-> raw.name, bucket |-> raw.bucket, category |-> raw.category,
     entity |-> raw.entity, extension |-> raw.extension, media_type |-> raw.media_type,
     remote_path |-> raw.remote_path, remote_filename |-> raw.remote_filename,
     remote_version |-> raw.remote_version, deprecated |-> (raw.deprecated = 1),
     deprecation_reason |-> raw.deprecation_reason, created |-> raw.created,
     updated |-> raw.updated, tags |-> tags]

\* the response of the route for a request that ended with an exception
\* (PUT /files/:id turns "UNIQUE constraint failed" into 409; app.onError gives 500)
errorResp(op, error) ==
    IF op = "update" /\ error \in {"UNIQUE constraint failed: files", "UNIQUE constraint failed: file_tags"}
    THEN [status |-> 409, error |-> error, created |-> FALSE, file |-> NoFile]
    ELSE [status |-> 500, error |-> error, created |-> FALSE, file |-> NoFile]

\* faulty variant: null answered like a record
okRespNeverNotFound(op, created, file) ==
    [status |-> IF op = "upsert" /\ created THEN 201 ELSE 200, error |-> "",
     created |-> created, file |-> file]

\* the response of the route for a request whose function returned file (NoFile: null)
okResp(op, created, file) ==
    IF op = "upsert"
    THEN [status |-> IF created THEN 201 ELSE 200, error |-> "", created |-> created, file |-> file]
    ELSE [status |-> IF file = NoFile THEN 404 ELSE 200, error |-> "", created |-> FALSE, file |-> file]

Finish(p, resp) == [procs EXCEPT ![p].pc = "done", ![p].resp = resp]
Goto(p, pc) == [procs EXCEPT ![p].pc = pc]

\* faulty variant: setFileTags that never deletes
afterWriteInsertOnly(tags, replace) ==
    IF tags.given /\ Len(tags.value) > 0 THEN "tagins" ELSE "get1"

\* where a request goes after its write to files: setFileTags(db, id, tags, replace)
afterWrite(tags, replace) ==
    IF ~tags.given THEN "get1"
    ELSE IF replace THEN "tagdel"
    ELSE IF Len(tags.value) > 0 THEN "tagins" ELSE "get1"

ClockReads == {t \in FileInstants : WLe(now, t)}

\* upsertFile: the SELECT by tuple; then, in the same turn, Date.now() for the
\* UPDATE, or createFile's crypto.randomUUID() and Date.now()
UpsertSelect(p, input, slots) ==
    /\ CanStart(p, slots)
    /\ \E t \in ClockReads :
          LET existing == selectIdByTuple(files, input)
          IN  /\ procs' = [procs EXCEPT ![p] =
                    [op |-> "upsert",
                     pc |-> IF existing = NoId THEN "insert" ELSE "update",
                     input |-> input,
                     id |-> IF existing = NoId THEN nextId ELSE existing,
                     t |-> t, created |-> (existing = NoId), raw |-> NoFile, resp |-> NoResp]]
              /\ nextId' = IF existing = NoId THEN nextId + 1 ELSE nextId
              /\ now' = t
    /\ UNCHANGED <<files, fileTags, downloads, dlResp, tsCall, httpResp, lastCleanup, anaCall>>

\* createFile: INSERT INTO files
CreateFileInsert(p) ==
    /\ procs[p].op = "upsert" /\ procs[p].pc = "insert"
    /\ LET row == FileRow(procs[p].id, procs[p].input, procs[p].t, procs[p].t)
       IN  IF idx_files_remote_unique(files, row)
           THEN /\ procs' = Finish(p, errorResp("upsert", "UNIQUE constraint failed: files"))
                /\ files' = files
           ELSE /\ files' = files \cup {row}
                /\ procs' = Goto(p, afterWrite(procs[p].input.tags, FALSE))
    /\ UNCHANGED <<fileTags, nextId, downloads, now, dlResp, tsCall, httpResp, lastCleanup, anaCall>>

\* upsertFile: UPDATE files ... WHERE id = existing.id
UpsertUpdate(p) ==
    /\ procs[p].op = "upsert" /\ procs[p].pc = "update"
    /\ files' = {IF f.id = procs[p].id THEN upsertUpdateRow(f, procs[p].input, procs[p].t) ELSE f
                 : f \in files}
    /\ procs' = Goto(p, afterWrite(procs[p].input.tags, TRUE))
    /\ UNCHANGED <<fileTags, nextId, downloads, now, dlResp, tsCall, httpResp, lastCleanup, anaCall>>

\* updateFile: getFileById's SELECT of the row; no row returns null (404)
UpdateSelect(p, id, input, slots) ==
    /\ CanStart(p, slots)
    /\ LET raw == selectById(files, id)
       IN  procs' = [procs EXCEPT ![p] =
              [op |-> "update", pc |-> IF raw = NoFile THEN "done" ELSE "ugettags",
               input |-> input, id |-> id, t |-> now, created |-> FALSE, raw |-> raw,
               resp |-> IF raw = NoFile THEN okResp("update", FALSE, NoFile) ELSE NoResp]]
    /\ UNCHANGED <<files, fileTags, nextId, downloads, now, dlResp, tsCall, httpResp, lastCleanup, anaCall>>

\* updateFile: getFileById's SELECT of the tags, which completes existing (kept
\* in raw while the function runs); then, in the same turn, Date.now()
UpdateSelectTags(p) ==
    /\ procs[p].op = "update" /\ procs[p].pc = "ugettags"
    /\ \E t \in ClockReads :
          /\ procs' = [procs EXCEPT
                          ![p].pc = "update", ![p].t = t,
                          ![p].raw = parseRecord(procs[p].raw,
                                                 selectTags(fileTags, procs[p].id))]
          /\ now' = t
    /\ UNCHANGED <<files, fileTags, nextId, downloads, dlResp, tsCall, httpResp, lastCleanup, anaCall>>

\* updateFile: UPDATE files SET ... WHERE id = ?
UpdateUpdate(p) ==
    /\ procs[p].op = "update" /\ procs[p].pc = "update"
    /\ LET old == selectById(files, procs[p].id)
           row == updateRow(old, procs[p].input, procs[p].t)
       IN  IF old = NoFile
           THEN /\ files' = files
                /\ procs' = Goto(p, afterWrite(procs[p].input.tags, TRUE))
           ELSE IF idx_files_remote_unique(files, row)
           THEN /\ files' = files
                /\ procs' = Finish(p, errorResp("update", "UNIQUE constraint failed: files"))
           ELSE /\ files' = (files \ {old}) \cup {row}
                /\ procs' = Goto(p, afterWrite(procs[p].input.tags, TRUE))
    /\ UNCHANGED <<fileTags, nextId, downloads, now, dlResp, tsCall, httpResp, lastCleanup, anaCall>>

\* setFileTags: DELETE FROM file_tags WHERE file_id = ?
TagDelete(p) ==
    /\ procs[p].pc = "tagdel"
    /\ fileTags' = {x \in fileTags : x[1] # procs[p].id}
    /\ procs' = Goto(p, IF Len(procs[p].input.tags.value) > 0 THEN "tagins" ELSE "get1")
    /\ UNCHANGED <<files, nextId, downloads, now, dlResp, tsCall, httpResp, lastCleanup, anaCall>>

\* setFileTags: db.batch of INSERT INTO file_tags, all rows or none
\* (PRIMARY KEY (file_id, tag); FOREIGN KEY (file_id) REFERENCES files(id))
TagInsert(p) ==
    /\ procs[p].pc = "tagins"
    /\ LET tags == procs[p].input.tags.value
           rows == {<<procs[p].id, tags[i]>> : i \in 1..Len(tags)}
       IN  IF selectById(files, procs[p].id) = NoFile
           THEN /\ fileTags' = fileTags
                /\ procs' = Finish(p, errorResp(procs[p].op, "FOREIGN KEY constraint failed"))
           ELSE IF Cardinality(rows) < Len(tags) \/ rows \cap fileTags # {}
           THEN /\ fileTags' = fileTags
                /\ procs' = Finish(p, errorResp(procs[p].op, "UNIQUE constraint failed: file_tags"))
           ELSE /\ fileTags' = fileTags \cup rows
                /\ procs' = Goto(p, "get1")
    /\ UNCHANGED <<files, nextId, downloads, now, dlResp, tsCall, httpResp, lastCleanup, anaCall>>

\* getFileById: SELECT * FROM files WHERE id = ?; no row returns null
GetFileRow(p) ==
    /\ procs[p].pc = "get1"
    /\ LET raw == selectById(files, procs[p].id)
       IN  procs' = IF raw = NoFile
                    THEN Finish(p, okResp(procs[p].op, procs[p].created, NoFile))
                    ELSE [procs EXCEPT ![p].pc = "get2", ![p].raw = raw]
    /\ UNCHANGED <<files, fileTags, nextId, downloads, now, dlResp, tsCall, httpResp, lastCleanup, anaCall>>

\* getFileById: SELECT tag FROM file_tags WHERE file_id = ?; the function returns
GetFileTags(p) ==
    /\ procs[p].pc = "get2"
    /\ procs' = [procs EXCEPT
                   ![p].pc = "done",
                   ![p].raw = NoFile,
                   ![p].resp = okResp(procs[p].op, procs[p].created,
                                      parseRecord(procs[p].raw, selectTags(fileTags, procs[p].id)))]
    /\ UNCHANGED <<files, fileTags, nextId, downloads, now, dlResp, tsCall, httpResp, lastCleanup, anaCall>>

\* GET /files/:id: the request arrives; getFileById's statements follow
GetFileStart(p, id, slots) ==
    /\ CanStart(p, slots)
    /\ procs' = [procs EXCEPT ![p] = [ProcIdle EXCEPT !.op = "get", !.pc = "get1", !.id = id]]
    /\ UNCHANGED <<files, fileTags, nextId, downloads, now, dlResp, tsCall, httpResp, lastCleanup, anaCall>>

\* deleteFile: DELETE FROM files WHERE id = ? (file_tags rows go ON DELETE CASCADE)
DeleteFile(p, id, slots) ==
    /\ CanStart(p, slots)
    /\ files' = {f \in files : f.id # id}
    /\ fileTags' = {x \in fileTags : x[1] # id}
    /\ procs' = [procs EXCEPT ![p] =
          [ProcIdle EXCEPT !.op = "delete", !.pc = "done", !.id = id,
                           !.resp = [status |-> IF files' # files THEN 200 ELSE 404,
                                     error |-> "", created |-> FALSE, file |-> NoFile]]]
    /\ UNCHANGED <<nextId, downloads, now, dlResp, tsCall, httpResp, lastCleanup, anaCall>>

\* deleteFileByRemote: DELETE FROM files WHERE the four location columns match
DeleteFileByRemote(p, loc, slots) ==
    /\ CanStart(p, slots)
    /\ files' = {f \in files : LocationOf(f) # loc}
    /\ fileTags' = {x \in fileTags : \E f \in files' : f.id = x[1]}
    /\ procs' = [procs EXCEPT ![p] =
          [ProcIdle EXCEPT !.op = "deleteByRemote", !.pc = "done", !.input = loc @@ NoInput,
                           !.resp = [status |-> IF files' # files THEN 200 ELSE 404,
                                     error |-> "", created |-> FALSE, file |-> NoFile]]]
    /\ UNCHANGED <<nextId, downloads, now, dlResp, tsCall, httpResp, lastCleanup, anaCall>>

\* the response is sent
Respond(p) ==
    /\ procs[p].pc = "done"
    /\ procs' = [procs EXCEPT ![p] = ProcClosed]
    /\ UNCHANGED <<files, fileTags, nextId, downloads, now, dlResp, tsCall, httpResp, lastCleanup, anaCall>>

UpsertInputs ==
    {CreateFileInput(LocA, Undefined, Absent),
     CreateFileInput(LocA, "n2", Some(<<"t1">>)),
     CreateFileInput(LocB, Undefined, Some(<<"t1">>)),
     CreateFileInput(LocC, "n2", Absent)}
UpdateInputs ==
    {UpdateFileInput("n3", Undefined, Undefined, Some(TRUE), Absent),
     UpdateFileInput(Undefined, Undefined, "f2", Absent, Some(<<>>)),
     UpdateFileInput(Undefined, "b2", Undefined, Absent, Some(<<"t2">>)),
     UpdateFileInput("n3", Undefined, Undefined, Absent, Some(<<"t2", "t2">>))}

FileStep(p, slots) ==
    \/ \E input \in UpsertInputs : UpsertSelect(p, input, slots)
    \/ CreateFileInsert(p)
    \/ UpsertUpdate(p)
    \/ \E id \in 1..MaxTargetId, input \in UpdateInputs : UpdateSelect(p, id, input, slots)
    \/ UpdateSelectTags(p)
    \/ UpdateUpdate(p)
    \/ TagDelete(p)
    \/ TagInsert(p)
    \/ GetFileRow(p)
    \/ GetFileTags(p)
    \/ \E id \in 1..MaxTargetId : GetFileStart(p, id, slots)
    \/ \E id \in 1..MaxTargetId : DeleteFile(p, id, slots)
    \/ \E loc \in {LocA, LocC} : DeleteFileByRemote(p, loc, slots)
    \/ Respond(p)

InitFiles ==
    /\ files = {}
    /\ fileTags = {}
    /\ nextId = 1
    /\ procs = [p \in Procs |-> ProcIdle]
    /\ downloads = <<>>
    /\ now = T_JanEnd
    /\ dlResp = NoRow
    /\ tsCall = NoCall
    /\ httpResp = NoResp
    /\ lastCleanup = NoCleanup
    /\ anaCall = NoCall

\* concurrent requests
NextFiles == \E p \in Procs : FileStep(p, MaxInFlight)
SpecFiles == InitFiles /\ [][NextFiles]_vars

\* one request at a time: a request arrives when the one before it is answered
NextFilesSeq == \E p \in Procs : FileStep(p, 1)
SpecFilesSeq == InitFiles /\ [][NextFilesSeq]_vars

-----------------------------------------------------------------------------
(* Search: GET /files -> searchFiles.  A query string is a sequence of its  *)
(* pieces: a tag name, a comma or a space.                                  *)

GROUPABLE_FIELDS == {"bucket", "category", "entity", "extension", "media_type", "deprecated"}
SEARCH_LIMIT_DEFAULT == 100
SEARCH_LIMIT_MAX == 1000
SEARCH_OFFSET_DEFAULT == 0

SearchParams(bucket, category, deprecated, tags, group_by, limit, offset) ==
    [bucket |-> bucket, category |-> category, entity |-> Undefined,
     extension |-> Undefined, media_type |-> Undefined, deprecated |-> deprecated,
     tags |-> tags, group_by |-> group_by, limit |-> limit, offset |-> offset]

\* str.split(',')
RECURSIVE split(_)
split(str) ==
    IF \A i \in 1..Len(str) : str[i] # "," THEN <<str>>
    ELSE LET i == CHOOSE k \in 1..Len(str) :
                     str[k] = "," /\ \A j \in 1..(k - 1) : str[j] # ","
         IN  <<SubSeq(str, 1, i - 1)>> \o split(SubSeq(str, i + 1, Len(str)))

\* t.trim()
RECURSIVE trim(_)
trim(t) ==
    IF t # <<>> /\ t[1] = " " THEN trim(Tail(t))
    ELSE IF t # <<>> /\ t[Len(t)] = " " THEN trim(SubSeq(t, 1, Len(t) - 1))
    ELSE t

\* params.tags.split(',').map(t => t.trim())
tagListOf(str) == LET parts == split(str) IN [i \in 1..Len(parts) |-> trim(parts[i])]

\* f.id IN (SELECT file_id FROM file_tags WHERE tag IN (...) GROUP BY file_id
\*          HAVING COUNT(DISTINCT tag) = tagList.length)
tagCondition(f, tgs, tagList) ==
    Cardinality({x \in tgs : x[1] = f.id /\ \E i \in 1..Len(tagList) : tagList[i] = <<x[2]>>})
        = Len(tagList)

\* the WHERE clause buildSearchConditions builds, on row f
buildSearchConditions(params, f, tgs) ==
    /\ Truthy(params.bucket) => f.bucket = params.bucket
    /\ Truthy(params.category) => f.category = params.category
    /\ Truthy(params.entity) => f.entity = params.entity
    /\ Truthy(params.extension) => f.extension = params.extension
    /\ Truthy(params.media_type) => f.media_type = params.media_type
    /\ params.deprecated # Undefined
          => f.deprecated = (IF params.deprecated = "true" THEN 1 ELSE 0)
    /\ (params.tags.given /\ Len(params.tags.value) > 0)
          => tagCondition(f, tgs, tagListOf(params.tags.value))

\* the rows of files that satisfy the WHERE clause
whereRows(fls, tgs, params) == {f \in fls : buildSearchConditions(params, f, tgs)}

\* ORDER BY f.created DESC
createdBefore(a, b) == WLt(b.created, a.created)

\* every order the store may return the rows in: ties are in any order
RECURSIVE orderedByCreated(_)
orderedByCreated(S) ==
    IF S = {} THEN {<<>>}
    ELSE UNION {{<<x>> \o rest : rest \in orderedByCreated(S \ {x})}
                : x \in {y \in S : \A z \in S : ~createdBefore(z, y)}}

\* parseInt(raw ?? default, 10) of an optional string of digits
parseIntOr(raw, default) == IF raw = RawAbsent THEN default ELSE raw.val

\* faulty variant: LIMIT ? with the offset ignored
limitOffsetFromStart(rows, limit, offset) ==
    SubSeq(rows, 1, IF limit < Len(rows) THEN limit ELSE Len(rows))

\* LIMIT ? OFFSET ?
limitOffset(rows, limit, offset) ==
    IF offset >= Len(rows) \/ limit = 0 THEN <<>>
    ELSE SubSeq(rows, offset + 1,
                IF offset + limit < Len(rows) THEN offset + limit ELSE Len(rows))

\* result.results.map(parseRecord), then fetchTagsForFiles
fetchTagsForFiles(tgs, rows) ==
    [i \in 1..Len(rows) |-> parseRecord(rows[i], selectTags(tgs, rows[i].id))]

\* the results searchFilesList may return
searchFilesList(fls, tgs, params) ==
    LET matched == whereRows(fls, tgs, params)
        total == Cardinality(matched)
        n == parseIntOr(params.limit, SEARCH_LIMIT_DEFAULT)
        limit == IF n < SEARCH_LIMIT_MAX THEN n ELSE SEARCH_LIMIT_MAX
        offset == parseIntOr(params.offset, SEARCH_OFFSET_DEFAULT)
    IN  {[threw |-> FALSE,
          files |-> fetchTagsForFiles(tgs, limitOffset(rows, limit, offset)),
          total |-> total]
         : rows \in orderedByCreated(matched)}

\* faulty variant: SELECT COUNT(DISTINCT f.groupBy) ... GROUP BY f.groupBy
groupRowsDistinct(M, groupBy) == {[value |-> v, count |-> 1] : v \in {f[groupBy] : f \in M}}

\* SELECT f.groupBy as value, COUNT(*) as count FROM files f ... GROUP BY f.groupBy
groupRows(M, groupBy) ==
    {[value |-> v, count |-> Cardinality({f \in M : f[groupBy] = v})]
     : v \in {f[groupBy] : f \in M}}

\* ORDER BY count DESC: ties are in any order
RECURSIVE orderedByCount(_)
orderedByCount(S) ==
    IF S = {} THEN {<<>>}
    ELSE UNION {{<<x>> \o rest : rest \in orderedByCount(S \ {x})}
                : x \in {y \in S : \A z \in S : z.count <= y.count}}

\* groups.reduce((sum, g) => sum + g.count, 0)
RECURSIVE reduceCounts(_)
reduceCounts(groups) ==
    IF groups = <<>> THEN 0
    ELSE reduceCounts(SubSeq(groups, 1, Len(groups) - 1)) + groups[Len(groups)].count

\* the results searchFilesGrouped may return: an exception, or groups and total
searchFilesGrouped(fls, tgs, params) ==
    LET groupBy == params.group_by
    IN  IF groupBy \notin GROUPABLE_FIELDS
        THEN {[threw |-> TRUE, error |-> "Invalid group_by field"]}
        ELSE {LET groups == [i \in 1..Len(rows) |->
                               [value |-> IF groupBy = "deprecated"
                                          THEN (IF rows[i].value = 1 THEN "true" ELSE "false")
                                          ELSE rows[i].value,
                                count |-> rows[i].count]]
              IN  [threw |-> FALSE, groups |-> groups, total |-> reduceCounts(groups)]
              : rows \in orderedByCount(groupRows(whereRows(fls, tgs, params), groupBy))}

\* searchFiles
searchFiles(fls, tgs, params) ==
    IF Truthy(params.group_by) THEN searchFilesGrouped(fls, tgs, params)
    ELSE searchFilesList(fls, tgs, params)

\* searchParamsSchema.safeParse(params).success: every string of the model is
\* within the length limits
searchParamsValid(params) ==
    /\ params.deprecated \in {Undefined, "true", "false"}
    /\ params.group_by \in {Undefined, "category", "entity", "extension", "media_type",
                            "deprecated"}
    /\ params.limit = RawAbsent \/ IsDigits(params.limit)
    /\ params.offset = RawAbsent \/ IsDigits(params.offset)

\* searchParamsSchema.safeParse(params).data: z.object keeps the keys of the
\* schema, and bucket is none of them
searchParamsData(params) == [params EXCEPT !.bucket = Undefined]

\* a call of searchFiles(db, params)
SearchFiles(p, params, slots) ==
    /\ CanStart(p, slots)
    /\ \E r \in searchFiles(files, fileTags, params) :
          procs' = [procs EXCEPT ![p] =
                      [ProcIdle EXCEPT !.op = "searchFiles", !.pc = "done",
                                       !.input = params, !.resp = r]]
    /\ UNCHANGED <<files, fileTags, nextId, downloads, now, dlResp, tsCall, httpResp, lastCleanup, anaCall>>

\* buildFileEntry, for the columns of the model: last_updated, and name when
\* the record has one
buildFileEntry(file) ==
    [last_updated |-> file.updated,
     name |-> IF Truthy(file.name) THEN file.name ELSE Undefined]

\* ORDER BY f.entity, f.extension on strings of the form "e1", "x2"
textBefore(a, b) ==
    LET rank == [t \in {"e1", "e2", "x1", "x2"} |->
                    CASE t = "e1" -> 1 [] t = "e2" -> 2 [] t = "x1" -> 1 [] t = "x2" -> 2]
    IN  rank[a] < rank[b]

scanBefore(a, b) ==
    \/ textBefore(a.entity, b.entity)
    \/ a.entity = b.entity /\ textBefore(a.extension, b.extension)

\* every order the store may return the rows in: ties are in any order
RECURSIVE orderedByEntityExtension(_)
orderedByEntityExtension(S) ==
    IF S = {} THEN {<<>>}
    ELSE UNION {{<<x>> \o rest : rest \in orderedByEntityExtension(S \ {x})}
                : x \in {y \in S : \A z \in S : ~scanBefore(z, y)}}

\* faulty variant: if (!index[file.entity][file.extension]) index[...][...] = ...
putEntryFirstWins(index, file) ==
    LET inner == IF file.entity \in DOMAIN index THEN index[file.entity] ELSE <<>>
        inner2 == [x \in DOMAIN inner \cup {file.extension} |->
                     IF x \in DOMAIN inner THEN inner[x] ELSE buildFileEntry(file)]
    IN  [e \in DOMAIN index \cup {file.entity} |->
            IF e = file.entity THEN inner2 ELSE index[e]]

\* one turn of the loop of getNestedIndex:
\* if (!index[file.entity]) index[file.entity] = {};
\* index[file.entity][file.extension] = buildFileEntry(file)
putEntry(index, file) ==
    LET inner == IF file.entity \in DOMAIN index THEN index[file.entity] ELSE <<>>
        inner2 == [x \in DOMAIN inner \cup {file.extension} |->
                     IF x = file.extension THEN buildFileEntry(file) ELSE inner[x]]
    IN  [e \in DOMAIN index \cup {file.entity} |->
            IF e = file.entity THEN inner2 ELSE index[e]]

RECURSIVE buildIndex(_, _)
buildIndex(index, rows) ==
    IF rows = <<>> THEN index
    ELSE buildIndex(putEntry(index, parseRecord(Head(rows), {})), Tail(rows))

\* the results getNestedIndex may return; scanned is the order in which the
\* store returned the rows
getNestedIndex(fls, tgs, params) ==
    {[threw |-> FALSE, index |-> buildIndex(<<>>, rows),
      scanned |-> [i \in 1..Len(rows) |-> rows[i].id]]
     : rows \in orderedByEntityExtension(whereRows(fls, tgs, params))}

\* a call of getNestedIndex (GET /files/index passes the query string on
\* without validation)
GetNestedIndex(p, params, slots) ==
    /\ CanStart(p, slots)
    /\ \E r \in getNestedIndex(files, fileTags, params) :
          procs' = [procs EXCEPT ![p] =
                      [ProcIdle EXCEPT !.op = "getNestedIndex", !.pc = "done",
                                       !.input = params, !.resp = r]]
    /\ UNCHANGED <<files, fileTags, nextId, downloads, now, dlResp, tsCall, httpResp, lastCleanup, anaCall>>

\* app.get('/', ...): GET /files
SearchRoute(p, params, slots) ==
    /\ CanStart(p, slots)
    /\ IF ~searchParamsValid(params)
       THEN procs' = [procs EXCEPT ![p] =
                        [ProcIdle EXCEPT !.op = "GET /files", !.pc = "done", !.input = params,
                                         !.resp = [status |-> 400, error |-> "VALIDATION_ERROR"]]]
       ELSE \E r \in searchFiles(files, fileTags, searchParamsData(params)) :
               procs' = [procs EXCEPT ![p] =
                           [ProcIdle EXCEPT !.op = "GET /files", !.pc = "done", !.input = params,
                                            !.resp = IF r.threw
                                                     THEN [status |-> 400, error |-> "INVALID_GROUP_BY"]
                                                     ELSE [status |-> 200, error |-> "", body |-> r]]]
    /\ UNCHANGED <<files, fileTags, nextId, downloads, now, dlResp, tsCall, httpResp, lastCleanup, anaCall>>

MaxSearchFiles == 3

\* the rows and tags a store of the search model is drawn from
SearchRow(id, loc, category, entity, deprecated, created) ==
    [FileRow(id, [CreateFileInput(loc, Undefined, Absent)
                    EXCEPT !.category = category, !.entity = entity], created, created)
       EXCEPT !.deprecated = deprecated,
              !.extension = IF id = 4 THEN "x2" ELSE @,
              !.name = IF id = 2 THEN "n2" ELSE @]

SearchRows ==
    {SearchRow(1, LocA, "c1", "e1", 0, T_JanEnd),
     SearchRow(2, LocB, "c1", "e1", 1, T_Feb1),
     SearchRow(3, LocD, "c2", "e2", 0, T_Feb1),
     SearchRow(4, Loc("b2", "p1", "f2", "v2"), "c2", "e1", 0, T_Feb29)}

SearchTags ==
    {<<1, "a">>, <<1, "b">>, <<2, "a">>, <<3, "a">>, <<3, "b">>, <<3, "c">>}

TagQueries ==
    {Absent, Some(<<"a">>), Some(<<"a", ",", "b">>), Some(<<" ", "a", " ", ",", "b">>),
     Some(<<"a", ",", "a">>), Some(<<"a", ",", "b", ",", "c">>)}

SearchFilterSets ==
    {SearchParams(b, c, d, Absent, Undefined, RawAbsent, RawAbsent)
       : b \in {Undefined, "b1"}, c \in {Undefined, "c1"}, d \in {Undefined, "true", "false"}}
    \cup {SearchParams(Undefined, c, Undefined, tg, Undefined, RawAbsent, RawAbsent)
            : c \in {Undefined, "c1"}, tg \in TagQueries}
    \cup {[SearchParams(Undefined, Undefined, Undefined, Absent, Undefined, RawAbsent, RawAbsent)
             EXCEPT !.entity = "e1", !.extension = "x1", !.media_type = "m1"]}

SearchModes ==
    {[group_by |-> g, limit |-> RawAbsent, offset |-> RawAbsent]
       : g \in GROUPABLE_FIELDS \cup {"name"}}
    \cup {[group_by |-> Undefined, limit |-> lo[1], offset |-> lo[2]]
            : lo \in {<<RawAbsent, RawAbsent>>, <<RawDigits(1), RawAbsent>>,
                      <<RawDigits(2), RawDigits(1)>>, <<RawDigits(0), RawAbsent>>,
                      <<RawDigits(1001), RawDigits(1)>>, <<RawAbsent, RawDigits(5)>>}}

SearchInputs ==
    {[f EXCEPT !.group_by = m.group_by, !.limit = m.limit, !.offset = m.offset]
       : f \in SearchFilterSets, m \in SearchModes}

\* query strings the schema refuses
SearchBadInputs ==
    {SearchParams(Undefined, Undefined, "yes", Absent, Undefined, RawAbsent, RawAbsent),
     SearchParams(Undefined, Undefined, Undefined, Absent, Undefined, RawText, RawAbsent),
     SearchParams(Undefined, Undefined, Undefined, Absent, "category", RawAbsent, RawText)}

InitSearch ==
    /\ files \in {S \in SUBSET SearchRows : Cardinality(S) <= MaxSearchFiles}
    /\ fileTags = {x \in SearchTags : \E f \in files : f.id = x[1]}
    /\ nextId = 5
    /\ procs = [p \in Procs |-> ProcIdle]
    /\ downloads = <<>>
    /\ now = T_Feb29
    /\ dlResp = NoRow
    /\ tsCall = NoCall
    /\ httpResp = NoResp
    /\ lastCleanup = NoCleanup
    /\ anaCall = NoCall

NextSearch ==
    \E p \in Procs :
        \/ procs[p].op = "idle" /\ \E params \in SearchInputs : SearchFiles(p, params, 1)
        \/ procs[p].op = "idle" /\ \E params \in SearchInputs \cup SearchBadInputs :
                                       SearchRoute(p, params, 1)
        \/ procs[p].op = "idle" /\ \E params \in SearchFilterSets :
                                       GetNestedIndex(p, params, 1)
        \/ Respond(p)

SpecSearch == InitSearch /\ [][NextSearch]_vars

-----------------------------------------------------------------------------
(* Analytics over the download log: getSummary, getDownloadsByIp,           *)
(* getUserAgentStats and their routes.                                      *)

SUMMARY_UA_LIMIT == 10
UA_LIMIT_DEFAULT == 20
UA_LIMIT_MAX == 100
BY_IP_LIMIT_DEFAULT == 100
BY_IP_LIMIT_MAX == 1000
BY_IP_OFFSET_DEFAULT == 0

\* WHERE <file conditions> AND downloaded_at >= ? AND downloaded_at <= ?:
\* the positions of the selected rows
rangeRows(dls, start, end, filter) ==
    {i \in 1..Len(dls) : /\ buildFileConditions(filter, dls[i])
                         /\ WLe(start, dls[i].downloaded_at)
                         /\ WLe(dls[i].downloaded_at, end)}

\* SELECT user_agent, COUNT(*) as downloads, COUNT(DISTINCT ip_address) as
\* unique_ips ... GROUP BY user_agent: NULL is a group of its own
userAgentGroups(dls, M) ==
    {[user_agent |-> u,
      downloads |-> Cardinality({i \in M : dls[i].user_agent = u}),
      unique_ips |-> Cardinality({dls[i].ip_address : i \in {j \in M : dls[j].user_agent = u}})]
     : u \in {dls[i].user_agent : i \in M}}

\* ORDER BY downloads DESC: every order the store may return, ties in any order
RECURSIVE orderedByDownloads(_)
orderedByDownloads(S) ==
    IF S = {} THEN {<<>>}
    ELSE UNION {{<<x>> \o rest : rest \in orderedByDownloads(S \ {x})}
                : x \in {y \in S : \A z \in S : z.downloads <= y.downloads}}

\* LIMIT ?
limitRows(rows, limit) == SubSeq(rows, 1, IF limit < Len(rows) THEN limit ELSE Len(rows))

\* .filter(ua => ua.user_agent)
presentUserAgents(rows) == SelectSeq(rows, LAMBDA g : Truthy(g.user_agent))

\* faulty variant: COUNT(ip_address) for the unique total
summaryTotalsNotDistinct(dls, M) ==
    [total |-> Cardinality(M), unique_total |-> Cardinality(M)]

\* SELECT COUNT(*) as total, COUNT(DISTINCT ip_address) as unique_total
summaryTotals(dls, M) ==
    [total |-> Cardinality(M), unique_total |-> Cardinality({dls[i].ip_address : i \in M})]

\* the results getSummary may return
getSummary(dls, start, end, filter) ==
    LET M == rangeRows(dls, start, end, filter)
        totals == summaryTotals(dls, M)
    IN  {[total_downloads |-> totals.total,
          unique_downloads |-> totals.unique_total,
          top_user_agents |->
             LET kept == presentUserAgents(limitRows(rows, SUMMARY_UA_LIMIT))
             IN  [i \in 1..Len(kept) |-> [user_agent |-> kept[i].user_agent,
                                          downloads |-> kept[i].downloads]],
          period |-> [start |-> start, end |-> end]]
         : rows \in orderedByDownloads(userAgentGroups(dls, M))}

\* the results getUserAgentStats may return
getUserAgentStats(dls, start, end, filter, limit) ==
    LET M == rangeRows(dls, start, end, filter)
    IN  {presentUserAgents(limitRows(rows, limit))
         : rows \in orderedByDownloads(userAgentGroups(dls, M))}

\* faulty variant: ORDER BY downloaded_at ASC
downloadedEarlier(dls, i, j) == WLt(dls[i].downloaded_at, dls[j].downloaded_at)

\* ORDER BY downloaded_at DESC: row i comes before row j
downloadedLater(dls, i, j) == WLt(dls[j].downloaded_at, dls[i].downloaded_at)

RECURSIVE orderedByDownloadedAt(_, _)
orderedByDownloadedAt(dls, S) ==
    IF S = {} THEN {<<>>}
    ELSE UNION {{<<x>> \o rest : rest \in orderedByDownloadedAt(dls, S \ {x})}
                : x \in {y \in S : \A z \in S : ~downloadedLater(dls, z, y)}}

\* SELECT bucket, remote_path, remote_filename, remote_version, downloaded_at,
\* user_agent
byIpColumns(d) ==
    [bucket |-> d.bucket, remote_path |-> d.remote_path,
     remote_filename |-> d.remote_filename, remote_version |-> d.remote_version,
     downloaded_at |-> d.downloaded_at, user_agent |-> d.user_agent]

\* the results getDownloadsByIp may return
getDownloadsByIp(dls, ip, start, end, limit, offset) ==
    LET M == {i \in 1..Len(dls) : /\ dls[i].ip_address = ip
                                  /\ WLe(start, dls[i].downloaded_at)
                                  /\ WLe(dls[i].downloaded_at, end)}
    IN  {[downloads |-> LET page == limitOffset(rows, limit, offset)
                       IN  [k \in 1..Len(page) |-> byIpColumns(dls[page[k]])],
          total |-> Cardinality(M)]
         : rows \in orderedByDownloadedAt(dls, M)}

\* a call of getSummary on the current store
GetSummary(start, end, filter) ==
    /\ Idle
    /\ \E out \in getSummary(downloads, start, end, filter) :
          anaCall' = [called |-> TRUE, fn |-> "getSummary", start |-> start, end |-> end,
                      filter |-> filter, out |-> out]
    /\ UNCHANGED <<files, fileTags, nextId, procs, downloads, now, dlResp, tsCall, httpResp,
                   lastCleanup>>

\* Math.min(parseInt(limit || '100', 10), 1000)
byIpLimitOf(limit) ==
    LET n == IF limit = RawAbsent THEN BY_IP_LIMIT_DEFAULT ELSE limit.val
    IN  IF n < BY_IP_LIMIT_MAX THEN n ELSE BY_IP_LIMIT_MAX

\* parseInt(offset || '0', 10)
byIpOffsetOf(offset) == IF offset = RawAbsent THEN BY_IP_OFFSET_DEFAULT ELSE offset.val

\* app.get('/by-ip', ...)
ByIpRoute(params) ==
    /\ Idle
    /\ IF ~analyticsParamsValid(params)
       THEN /\ httpResp' = [status |-> 400, kind |-> "by-ip", params |-> params,
                            error |-> "VALIDATION_ERROR"]
            /\ anaCall' = NoCall
       ELSE LET data == analyticsParamsData(params)
            IN  IF ~Truthy(data.ip)
                THEN /\ httpResp' = [status |-> 400, kind |-> "by-ip", params |-> params,
                                     error |-> "ip parameter is required"]
                     /\ anaCall' = NoCall
                ELSE LET limit == byIpLimitOf(data.limit)
                         offset == byIpOffsetOf(data.offset)
                     IN  \E out \in getDownloadsByIp(downloads, data.ip, data.start.val,
                                                     data.end.val, limit, offset) :
                            /\ anaCall' = [called |-> TRUE, fn |-> "getDownloadsByIp",
                                           ip |-> data.ip, start |-> data.start.val,
                                           end |-> data.end.val, limit |-> limit,
                                           offset |-> offset, out |-> out]
                            /\ httpResp' = [status |-> 200, kind |-> "by-ip",
                                            params |-> params, body |-> out]
    /\ UNCHANGED <<files, fileTags, nextId, procs, downloads, now, dlResp, tsCall, lastCleanup>>

\* Math.min(parseInt(limit || '20', 10), 100)
userAgentsLimitOf(limit) ==
    LET n == IF limit = RawAbsent THEN UA_LIMIT_DEFAULT ELSE limit.val
    IN  IF n < UA_LIMIT_MAX THEN n ELSE UA_LIMIT_MAX

\* app.get('/user-agents', ...)
UserAgentsRoute(params) ==
    /\ Idle
    /\ IF ~analyticsParamsValid(params)
       THEN /\ httpResp' = [status |-> 400, kind |-> "user-agents", params |-> params,
                            error |-> "VALIDATION_ERROR"]
            /\ anaCall' = NoCall
       ELSE LET data == analyticsParamsData(params)
                filter == [bucket |-> data.bucket, remote_path |-> data.remote_path,
                           remote_filename |-> data.remote_filename,
                           remote_version |-> data.remote_version]
                limit == userAgentsLimitOf(data.limit)
            IN  \E out \in getUserAgentStats(downloads, data.start.val, data.end.val,
                                             filter, limit) :
                    /\ anaCall' = [called |-> TRUE, fn |-> "getUserAgentStats",
                                   start |-> data.start.val, end |-> data.end.val,
                                   filter |-> filter, limit |-> limit, out |-> out]
                    /\ httpResp' = [status |-> 200, kind |-> "user-agents",
                                    params |-> params, data |-> out]
    /\ UNCHANGED <<files, fileTags, nextId, procs, downloads, now, dlResp, tsCall, lastCleanup>>

MaxAnaDownloads == 3

AnaInstants == {T_JanEnd, T_Feb1, T_Feb29}
AnaInputs == {DownloadInput(LocA, "ip1", Undefined), DownloadInput(LocA, "ip1", "ua1"),
              DownloadInput(LocD, "ip2", "ua1"), DownloadInput(LocA, "ip2", "ua2")}
AnaRanges == {<<T_JanEnd, T_Feb29>>, <<T_Feb1, T_Feb1>>, <<T_Feb29, T_JanEnd>>}
AnaFilters == {NoFilter, FileFilter("b1", Undefined, "f1", Undefined)}

AnaParams(start, end, remote_version, ip, limit, offset) ==
    [start |-> start, end |-> end, scale |-> Undefined, bucket |-> Undefined,
     remote_path |-> Undefined, remote_filename |-> Undefined,
     remote_version |-> remote_version, ip |-> ip, limit |-> limit, offset |-> offset]

ByIpParams ==
    {AnaParams(RawDigits(r[1]), RawDigits(r[2]), Undefined, ip, lo[1], lo[2])
       : r \in {<<T_JanEnd, T_Feb29>>, <<T_Feb1, T_Feb29>>}, ip \in {"ip1", "ip2"},
         lo \in {<<RawAbsent, RawAbsent>>, <<RawDigits(1), RawDigits(1)>>,
                 <<RawDigits(2), RawAbsent>>, <<RawDigits(0), RawAbsent>>,
                 <<RawDigits(1001), RawDigits(4)>>}}
    \cup {AnaParams(RawDigits(T_JanEnd), RawDigits(T_Feb29), Undefined, Undefined,
                    RawAbsent, RawAbsent),
          AnaParams(RawDigits(T_JanEnd), RawDigits(T_Feb29), Undefined, "",
                    RawAbsent, RawAbsent),
          AnaParams(RawText, RawDigits(T_Feb29), Undefined, "ip1", RawAbsent, RawAbsent),
          AnaParams(RawDigits(T_JanEnd), RawDigits(T_Feb29), Undefined, Undefined,
                    RawAbsent, RawText)}

UserAgentsParams ==
    {AnaParams(RawDigits(r[1]), RawDigits(r[2]), v, Undefined, l, RawAbsent)
       : r \in {<<T_JanEnd, T_Feb29>>, <<T_Feb1, T_Feb29>>}, v \in {Undefined, "v1"},
         l \in {RawAbsent, RawDigits(1), RawDigits(2), RawDigits(101)}}
    \cup {AnaParams(RawDigits(T_JanEnd), RawAbsent, Undefined, Undefined,
                    RawAbsent, RawAbsent)}

NextAnalytics ==
    \/ \E input \in AnaInputs, t \in AnaInstants :
          Len(downloads) < MaxAnaDownloads /\ CreateDownload(input, t)
    \/ \E r \in AnaRanges, filter \in AnaFilters : GetSummary(r[1], r[2], filter)
    \/ \E params \in ByIpParams : ByIpRoute(params)
    \/ \E params \in UserAgentsParams : UserAgentsRoute(params)
    \/ Return

SpecAnalytics == InitRange /\ [][NextAnalytics]_vars

-----------------------------------------------------------------------------
(* The download log next to a file index that loses records: getTimeSeries  *)
(* joins each row to the current record of its location.                    *)

MaxJoinDownloads == 2

JoinInstants == {T_JanEnd, T_Feb1}
JoinInputs == {DownloadInput(LocA, "ip1", "ua1"), DownloadInput(LocA, "ip2", "ua1"),
               DownloadInput(LocC, "ip1", "ua1")}
JoinScales == {"day", "month"}
JoinFilters == {NoFilter, FileFilter(Undefined, "p1", "f1", Undefined)}

InitJoin ==
    /\ files = TSFiles
    /\ fileTags = {}
    /\ nextId = 2
    /\ procs = [p \in Procs |-> ProcIdle]
    /\ downloads = <<>>
    /\ now = T_JanEnd
    /\ dlResp = NoRow
    /\ tsCall = NoCall
    /\ httpResp = NoResp
    /\ lastCleanup = NoCleanup
    /\ anaCall = NoCall

NextJoin ==
    \/ \E input \in JoinInputs, t \in JoinInstants :
          Len(downloads) < MaxJoinDownloads /\ CreateDownload(input, t)
    \/ \E scale \in JoinScales, filter \in JoinFilters, cap \in 1..MaxCap :
          GetTimeSeries(T_JanEnd, T_Feb1, scale, filter, cap)
    \/ Return
    \/ \E p \in Procs, id \in 1..MaxTargetId : Idle /\ DeleteFile(p, id, 1)
    \/ \E p \in Procs : Respond(p)

SpecJoin == InitJoin /\ [][NextJoin]_vars

-----------------------------------------------------------------------------
(* getTimeSeries next to writers of the log.  Its two queries (the          *)
(* per-tuple query, then uniqueQuery) are two awaited statements with no    *)
(* transaction around them; another request's createDownload or             *)
(* cleanupOldDownloads may commit between them.                              *)

MaxScanDownloads == 2

ScanInstants == {T_JanEnd, T_Feb1, T_Feb29}
ScanInputs == {DownloadInput(LocA, "ip1", "ua1"), DownloadInput(LocA, "ip2", "ua1"),
               DownloadInput(LocB, "ip1", "ua1")}
ScanScales == {"day", "month"}
ScanFilters == {NoFilter, FileFilter("b1", Undefined, "f1", Undefined)}
ScanRetentions == {1, 30}

\* getTimeSeries has run its first query and the loop over result.results
Scanning == tsCall # NoCall /\ "timeBucketMap" \in DOMAIN tsCall

\* getTimeSeries up to the end of the loop over result.results
ScanPerTuple(start, end, scale, filter, filesLimit) ==
    /\ Idle
    /\ LET bucketCol == getBucketColumn(scale)
           startBucket == rangeBucket(start, scale)
           endBucket == rangeBucket(end, scale)
       IN  \E rows \in orderedResults(
                 perFileGroups(downloads, files, filter, bucketCol, startBucket, endBucket)) :
              tsCall' = [called |-> TRUE, start |-> start, end |-> end, scale |-> scale,
                         filter |-> filter, filesLimit |-> filesLimit,
                         timeBucketMap |-> groupByTimeBucket(rows, 1, <<>>, filesLimit)]
    /\ UNCHANGED <<files, fileTags, nextId, procs, downloads, now, dlResp, httpResp, lastCleanup, anaCall>>

\* createDownload of another request, committed while getTimeSeries awaits
CreateDownloadBetweenScans(input, t) ==
    /\ Scanning
    /\ WLe(now, t)
    /\ LET row == DownloadRow(input, t, nextId)
       IN  /\ downloads' = Append(downloads, row)
           /\ dlResp' = row
    /\ nextId' = nextId + 1
    /\ now' = t
    /\ lastCleanup' = NoCleanup
    /\ UNCHANGED <<files, fileTags, procs, tsCall, httpResp, anaCall>>

\* cleanupOldDownloads of another request, committed while getTimeSeries awaits
CleanupBetweenScans(t, retentionDays) ==
    /\ Scanning
    /\ WLe(now, t)
    /\ downloads' = cleanupOldDownloads(downloads, t, retentionDays).downloads
    /\ now' = t
    /\ UNCHANGED <<files, fileTags, nextId, procs, dlResp, tsCall, httpResp, lastCleanup, anaCall>>

\* getTimeSeries from uniqueQuery to its return value
ScanUnique ==
    /\ Scanning
    /\ LET bucketCol == getBucketColumn(tsCall.scale)
           uniqueResult == uniqueQuery(downloads, tsCall.filter, bucketCol,
                                       rangeBucket(tsCall.start, tsCall.scale),
                                       rangeBucket(tsCall.end, tsCall.scale))
           timeBucketMap == applyUnique(tsCall.timeBucketMap, uniqueResult)
       IN  tsCall' = [called |-> TRUE, start |-> tsCall.start, end |-> tsCall.end,
                      scale |-> tsCall.scale, filter |-> tsCall.filter,
                      filesLimit |-> tsCall.filesLimit,
                      out |-> sortEntries(timeBucketMap, DOMAIN timeBucketMap)]
    /\ UNCHANGED <<files, fileTags, nextId, procs, downloads, now, dlResp, httpResp, lastCleanup, anaCall>>

\* the caller takes the return value
ScanReturn == ~Scanning /\ Return

NextScan ==
    \/ \E input \in ScanInputs, t \in ScanInstants :
          Len(downloads) < MaxScanDownloads /\ CreateDownload(input, t)
    \/ \E scale \in ScanScales, filter \in ScanFilters, cap \in 1..MaxCap :
          ScanPerTuple(T_JanEnd, T_Feb1, scale, filter, cap)
    \/ \E input \in ScanInputs, t \in ScanInstants :
          Len(downloads) < MaxScanDownloads /\ CreateDownloadBetweenScans(input, t)
    \/ \E t \in ScanInstants, retentionDays \in ScanRetentions :
          CleanupBetweenScans(t, retentionDays)
    \/ ScanUnique
    \/ ScanReturn

SpecScan == InitTS /\ [][NextScan]_vars

-----------------------------------------------------------------------------
(* Claims on getTimeSeries, stated on the call held in tsCall and the store *)
(* it ran on.                                                               *)

TsKey(i) == downloads[i][getBucketColumn(tsCall.scale)]

\* the events the call's filter and range select
TsSelected ==
    {i \in 1..Len(downloads) :
        whereClause(downloads[i], tsCall.filter, getBucketColumn(tsCall.scale),
                    rangeBucket(tsCall.start, tsCall.scale),
                    rangeBucket(tsCall.end, tsCall.scale))}

TsEventsIn(k) == {i \in TsSelected : TsKey(i) = k}
TsTuplesIn(k) == {LocationOf(downloads[i]) : i \in TsEventsIn(k)}
TsEventsOf(k, loc) == {i \in TsEventsIn(k) : LocationOf(downloads[i]) = loc}

RECURSIVE SumDownloads(_, _)
SumDownloads(fs, i) == IF i > Len(fs) THEN 0 ELSE fs[i].downloads + SumDownloads(fs, i + 1)

RECURSIVE SumUnique(_, _)
SumUnique(fs, i) == IF i > Len(fs) THEN 0 ELSE fs[i].unique_downloads + SumUnique(fs, i + 1)

\* C1: in every bucket getTimeSeries returns, total_downloads is the number of
\* matching download events of that bucket, over all location tuples, whatever
\* the per-bucket file cap keeps in the files list (also cap 0).
C1_TotalCountsAllTuples ==
    tsCall.called =>
        \A n \in 1..Len(tsCall.out) :
            tsCall.out[n].total_downloads = Cardinality(TsEventsIn(tsCall.out[n].timestamp))

\* a bucket whose files list was cut by the cap and whose total exceeds the kept rows' sum
C1_Witness ==
    /\ tsCall.called
    /\ \E n \in 1..Len(tsCall.out) :
          /\ Len(tsCall.out[n].files) < Cardinality(TsTuplesIn(tsCall.out[n].timestamp))
          /\ Len(tsCall.out[n].files) >= 1
          /\ tsCall.out[n].total_downloads > SumDownloads(tsCall.out[n].files, 1)

\* C2: total_unique_downloads of a bucket is the number of distinct IP addresses
\* among all matching events of the bucket (an IP that downloaded several files
\* counts once); a file row's unique_downloads is the number of distinct IPs
\* among that tuple's events in the bucket.
C2_UniqueCounts ==
    tsCall.called =>
        \A n \in 1..Len(tsCall.out) :
            LET b == tsCall.out[n]
            IN  /\ b.total_unique_downloads
                     = Cardinality({downloads[i].ip_address : i \in TsEventsIn(b.timestamp)})
                /\ \A j \in 1..Len(b.files) :
                      b.files[j].unique_downloads
                        = Cardinality({downloads[i].ip_address :
                                         i \in TsEventsOf(b.timestamp, LocationOf(b.files[j]))})

\* one IP downloaded two files in a bucket: the per-file uniques sum past the total
C2_Witness ==
    /\ tsCall.called
    /\ \E n \in 1..Len(tsCall.out) :
          SumUnique(tsCall.out[n].files, 1) > tsCall.out[n].total_unique_downloads

Min(a, b) == IF a < b THEN a ELSE b

\* C3: with cap N the files list of a bucket has min(N, distinct matching
\* tuples of the bucket) rows, of distinct tuples of the bucket, each with its
\* own download count, in non-increasing order of downloads, and no omitted
\* tuple has more downloads than a retained one.
C3_TopNFiles ==
    tsCall.called =>
        \A n \in 1..Len(tsCall.out) :
            LET b == tsCall.out[n]
                kept == {LocationOf(b.files[j]) : j \in 1..Len(b.files)}
            IN  /\ Len(b.files) = Min(tsCall.filesLimit, Cardinality(TsTuplesIn(b.timestamp)))
                /\ Cardinality(kept) = Len(b.files)
                /\ kept \subseteq TsTuplesIn(b.timestamp)
                /\ \A j \in 1..Len(b.files) :
                      b.files[j].downloads
                        = Cardinality(TsEventsOf(b.timestamp, LocationOf(b.files[j])))
                /\ \A j \in 1..(Len(b.files) - 1) :
                      b.files[j].downloads >= b.files[j + 1].downloads
                /\ \A loc \in TsTuplesIn(b.timestamp) \ kept : \A j \in 1..Len(b.files) :
                      Cardinality(TsEventsOf(b.timestamp, loc)) <= b.files[j].downloads

\* a bucket where the cap dropped a tuple with fewer downloads than the one kept
C3_Witness ==
    /\ tsCall.called
    /\ \E n \in 1..Len(tsCall.out) :
          LET b == tsCall.out[n]
              kept == {LocationOf(b.files[j]) : j \in 1..Len(b.files)}
          IN  /\ Len(b.files) = tsCall.filesLimit
              /\ Len(b.files) >= 1
              /\ \E loc \in TsTuplesIn(b.timestamp) \ kept :
                    Cardinality(TsEventsOf(b.timestamp, loc)) < b.files[1].downloads

\* C4: the result is strictly ascending by bucket key, has exactly one entry
\* per key with a matching event, none for a bucket without one (every total
\* is at least 1), and is the empty sequence when nothing matches.
C4_BucketsAscendingNoEmpty ==
    tsCall.called =>
        /\ \A n \in 1..(Len(tsCall.out) - 1) :
              WLt(tsCall.out[n].timestamp, tsCall.out[n + 1].timestamp)
        /\ {tsCall.out[n].timestamp : n \in 1..Len(tsCall.out)} = {TsKey(i) : i \in TsSelected}
        /\ \A n \in 1..Len(tsCall.out) : tsCall.out[n].total_downloads >= 1
        /\ TsSelected = {} => tsCall.out = <<>>

\* a result of several buckets, from a store that also holds an event the call leaves out
C4_Witness ==
    /\ tsCall.called
    /\ Len(tsCall.out) >= 2
    /\ TsSelected # 1..Len(downloads)

-----------------------------------------------------------------------------
(* The calendar, stated from the year and month to the day number *)

IsLeapYear(y) == (y % 4 = 0 /\ y % 100 # 0) \/ y % 400 = 0

DaysInMonth(y, m) ==
    IF m = 2 THEN (IF IsLeapYear(y) THEN 29 ELSE 28)
    ELSE IF m \in {4, 6, 9, 11} THEN 30 ELSE 31

LeapYearsThrough(y) == y \div 4 - y \div 100 + y \div 400

RECURSIVE DaysBeforeMonth(_, _)
DaysBeforeMonth(y, m) == IF m <= 1 THEN 0 ELSE DaysInMonth(y, m - 1) + DaysBeforeMonth(y, m - 1)

\* the day number (days since 1970-01-01) of the first day of month m of year y
FirstDayOfMonth(y, m) ==
    365 * (y - 1970) + LeapYearsThrough(y - 1) - LeapYearsThrough(1969) + DaysBeforeMonth(y, m)

\* k = UTC-year(t) * 100 + UTC-month(t), the month in 1..12
IsMonthKeyOf(k, t) ==
    LET y == k \div 100
        m == k % 100
    IN  /\ m \in 1..12
        /\ FirstDayOfMonth(y, m) <= t.d
        /\ t.d < FirstDayOfMonth(y, m) + DaysInMonth(y, m)

MonthKeys == {y * 100 + m : y \in 2023..2026, m \in 1..12}

\* the bucket key of instant t at a scale: the floor to the hour or the day, or YYYYMM
BucketOf(t, scale) ==
    CASE scale = "hour" -> Wide(t.d, t.ms - (t.ms % HOUR_MS))
      [] scale = "day" -> Wide(t.d, 0)
      [] scale = "month" -> Wide(0, CHOOSE k \in MonthKeys : IsMonthKeyOf(k, t))

\* x mod g
WMod(x, g) == ((x.d % g) * (DAY_MS % g) + x.ms) % g

-----------------------------------------------------------------------------
(* Claims on the range of getTimeSeries, its route and createDownload *)

StoredKey(i, scale) ==
    CASE scale = "hour" -> downloads[i].hour_bucket
      [] scale = "day" -> downloads[i].day_bucket
      [] scale = "month" -> downloads[i].month_bucket

FilterAccepts(filter, d) ==
    \A c \in {"bucket", "remote_path", "remote_filename", "remote_version"} :
        filter[c] \in {Undefined, ""} \/ d[c] = filter[c]

\* the events whose stored key lies in [BucketOf(start), BucketOf(end)]
RangeSelected ==
    {i \in 1..Len(downloads) :
        /\ FilterAccepts(tsCall.filter, downloads[i])
        /\ WLe(BucketOf(tsCall.start, tsCall.scale), StoredKey(i, tsCall.scale))
        /\ WLe(StoredKey(i, tsCall.scale), BucketOf(tsCall.end, tsCall.scale))}

\* the number of events the result counts under key k
CountedUnder(k) ==
    IF \E n \in 1..Len(tsCall.out) : tsCall.out[n].timestamp = k
    THEN (CHOOSE b \in {tsCall.out[n] : n \in 1..Len(tsCall.out)} : b.timestamp = k).total_downloads
    ELSE 0

\* C5: getTimeSeries counts an event iff its stored key for the scale lies in
\* [bucketOf(start), bucketOf(end)] (and the filter accepts it).  So every
\* event with start <= downloaded_at <= end is counted, and with scale month
\* a start and end of one calendar month count every event of that month.
C5_RangeInBucketSpace ==
    tsCall.called =>
        /\ \A i \in 1..Len(downloads) :
              CountedUnder(StoredKey(i, tsCall.scale))
                = Cardinality({j \in RangeSelected :
                                 StoredKey(j, tsCall.scale) = StoredKey(i, tsCall.scale)})
        /\ \A n \in 1..Len(tsCall.out) :
              \E i \in RangeSelected : StoredKey(i, tsCall.scale) = tsCall.out[n].timestamp
        /\ \A i \in 1..Len(downloads) :
              ( /\ FilterAccepts(tsCall.filter, downloads[i])
                /\ WLe(tsCall.start, downloads[i].downloaded_at)
                /\ WLe(downloads[i].downloaded_at, tsCall.end) )
              => CountedUnder(BucketOf(downloads[i].downloaded_at, tsCall.scale)) >= 1
        /\ ( /\ tsCall.scale = "month"
             /\ BucketOf(tsCall.start, "month") = BucketOf(tsCall.end, "month") )
           => CountedUnder(BucketOf(tsCall.start, "month"))
                = Cardinality({i \in 1..Len(downloads) :
                                 /\ FilterAccepts(tsCall.filter, downloads[i])
                                 /\ BucketOf(downloads[i].downloaded_at, "month")
                                      = BucketOf(tsCall.start, "month")})

\* a month-scale call whose start and end lie in one month counts an event of
\* that month recorded before start
C5_Witness ==
    /\ tsCall.called
    /\ tsCall.scale = "month"
    /\ WLt(tsCall.start, tsCall.end)
    /\ \E i \in 1..Len(downloads) :
          /\ WLt(downloads[i].downloaded_at, tsCall.start)
          /\ \E n \in 1..Len(tsCall.out) :
                /\ tsCall.out[n].timestamp = downloads[i].month_bucket
                /\ tsCall.out[n].total_downloads
                     = Cardinality({j \in 1..Len(downloads) :
                                      /\ FilterAccepts(tsCall.filter, downloads[j])
                                      /\ downloads[j].month_bucket = downloads[i].month_bucket})
                /\ tsCall.out[n].total_downloads >= 2

\* C6: a time-series request with start > end is answered 400 before
\* getTimeSeries runs, and one with start = end is answered 200.
C6_StartAfterEndRejected ==
    ( /\ httpResp.status # 0
      /\ IsDigits(httpResp.params.start)
      /\ IsDigits(httpResp.params.end) )
    => /\ WLt(httpResp.params.end.val, httpResp.params.start.val)
            => (httpResp.status = 400 /\ ~tsCall.called)
       /\ ( /\ httpResp.params.start.val = httpResp.params.end.val
            /\ httpResp.params.scale \in {Undefined} \cup Scales )
            => httpResp.status = 200

RowBucketsRight(r) ==
    /\ WMod(r.hour_bucket, HOUR_MS) = 0
    /\ WLe(r.hour_bucket, r.downloaded_at)
    /\ WLt(r.downloaded_at, WPlus(r.hour_bucket, HOUR_MS))
    /\ WMod(r.day_bucket, DAY_MS) = 0
    /\ WLe(r.day_bucket, r.downloaded_at)
    /\ WLt(r.downloaded_at, WPlus(r.day_bucket, DAY_MS))
    /\ r.month_bucket.d = 0
    /\ IsMonthKeyOf(r.month_bucket.ms, r.downloaded_at)

\* C7: for the timestamp T createDownload assigns, hour_bucket is the multiple
\* of 3,600,000 with hour_bucket <= T < hour_bucket + 3,600,000, day_bucket the
\* multiple of 86,400,000 with day_bucket <= T < day_bucket + 86,400,000,
\* month_bucket = UTC-year(T) * 100 + UTC-month(T) with the month in 1..12; the
\* response carries T and the three keys as they were stored.
C7_BucketsAtWriteTime ==
    /\ \A i \in 1..Len(downloads) : RowBucketsRight(downloads[i])
    /\ dlResp # NoRow =>
          /\ dlResp = downloads[Len(downloads)]
          /\ dlResp.downloaded_at = now

\* a download recorded in the last millisecond of a year: no key is T itself
C7_Witness ==
    /\ dlResp # NoRow
    /\ dlResp.downloaded_at = T_Dec31
    /\ dlResp.hour_bucket # dlResp.downloaded_at
    /\ dlResp.day_bucket # dlResp.hour_bucket
    /\ dlResp.month_bucket = Wide(0, 202412)
    /\ Len(downloads) = 2
    /\ downloads[1].month_bucket = Wide(0, 202402)

-----------------------------------------------------------------------------
(* Claims on the file index.                                                *)

\* the records of fls at the location tuple of input
TupleRecords(fls, input) == {f \in fls : LocationOf(f) = LocationOf(input)}

\* upsertFile of request p has returned or thrown
UpsertDone(p) == procs[p].op = "upsert" /\ procs[p].pc = "done"

TagSet(tags) == {tags[i] : i \in 1..Len(tags)}

\* C8: upsertFile is idempotent on the location tuple.  An upsert whose tuple
\* no record had creates exactly one record and reports created = true (201);
\* an upsert whose tuple a record had returns that record's id with
\* created = false (200) and the field values it supplied, and the number of
\* records with the tuple stays 1.  Requests run one at a time.
C8_UpsertIdempotent ==
    \A p \in Procs :
        UpsertDone(p) =>
            LET input == procs[p].input
                resp == procs[p].resp
            IN  /\ Cardinality(TupleRecords(files, input)) = 1
                /\ resp.file # NoFile
                /\ resp.file.id = procs[p].id
                /\ LocationOf(resp.file) = LocationOf(input)
                /\ resp.created = procs[p].created
                /\ resp.status = IF procs[p].created THEN 201 ELSE 200
                /\ resp.file.name = (IF input.name = Undefined THEN Null ELSE input.name)
                /\ resp.file.category = input.category
                /\ input.tags.given => resp.file.tags = TagSet(input.tags.value)

\* C9: under any interleaving of upserts, updates and deletes no two records
\* share a location tuple (bucket, remote_path, remote_filename,
\* remote_version); and when upserts of one tuple race between the existence
\* check and the insert, the uniqueness of the tuple decides each insert: it
\* fails with a constraint violation, leaving the records as they were, when a
\* record has the tuple, and creates one record when none has.
C9_TupleUniqueUnderRaces ==
    /\ [](\A f, g \in files : LocationOf(f) = LocationOf(g) => f = g)
    /\ [][\A q \in Procs :
            (/\ procs[q].op = "upsert" /\ procs[q].pc = "insert"
             /\ procs'[q].pc # "insert"
             /\ \E p \in Procs \ {q} :
                   /\ procs[p].op = "upsert" /\ procs[p].created
                   /\ LocationOf(procs[p].input) = LocationOf(procs[q].input))
            => IF TupleRecords(files, procs[q].input) # {}
               THEN /\ files' = files
                    /\ procs'[q].pc = "done"
                    /\ procs'[q].resp.error = "UNIQUE constraint failed: files"
               ELSE /\ Cardinality(files') = Cardinality(files) + 1
                    /\ Cardinality(TupleRecords(files', procs[q].input)) = 1
                    /\ procs'[q].pc # "done"]_vars

\* C10: an upsert of a location tuple that no record has succeeds and creates
\* a record, whatever other records there are: also one that differs from the
\* tuple in the bucket only.  Requests run one at a time.
C10_UpsertOfNewTupleSucceeds ==
    \A p \in Procs :
        (UpsertDone(p) /\ procs[p].created) =>
            /\ procs[p].resp.status = 201
            /\ \E f \in files : /\ f.id = procs[p].id
                                /\ LocationOf(f) = LocationOf(procs[p].input)

\* request p takes the step that runs the UPDATE of updateFile
UpdateStatementOf(p) ==
    /\ procs[p].op = "update" /\ procs[p].pc = "update"
    /\ procs'[p] # procs[p]

\* the UPDATE of request p would give its record the location tuple of
\* another record
CollidesWithOther(p) ==
    \E R \in files :
        /\ R.id = procs[p].id
        /\ \E S \in files :
              /\ S.id # R.id
              /\ LocationOf(S) =
                   [bucket |-> Given(procs[p].input.bucket, R.bucket),
                    remote_path |-> Given(procs[p].input.remote_path, R.remote_path),
                    remote_filename |-> Given(procs[p].input.remote_filename, R.remote_filename),
                    remote_version |-> Given(procs[p].input.remote_version, R.remote_version)]

\* C11: an update that would give record R the location tuple of a different
\* record S ends in a conflict (409, not 404) and leaves every record and
\* every tag as it was, also when the request carries a tags replacement.
C11_UpdateCollisionIsConflict ==
    [][\A p \in Procs :
          (UpdateStatementOf(p) /\ CollidesWithOther(p))
          => /\ procs'[p].pc = "done"
             /\ procs'[p].resp.status = 409
             /\ files' = files
             /\ fileTags' = fileTags]_vars

\* an update of a tagged record to another record's tuple, with a tags
\* replacement, answered 409: the record's fields and tags are in place
C11_Witness ==
    \E p \in Procs :
        /\ procs[p].op = "update" /\ procs[p].pc = "done"
        /\ procs[p].resp.status = 409
        /\ procs[p].input.tags.given
        /\ procs[p].input.remote_filename = "f2"
        /\ \E R \in files, S \in files :
              /\ R.id = procs[p].id /\ S.id # R.id
              /\ R.remote_filename = "f1" /\ S.remote_filename = "f2"
              /\ R.updated = R.created
        /\ selectTags(fileTags, procs[p].id) = {"t1"}

\* the errors of the store's uniqueness constraints
UniqueErrors == {"UNIQUE constraint failed: files", "UNIQUE constraint failed: file_tags"}

\* C12: a write that fails on a uniqueness constraint is answered with a
\* conflict (409), by POST /files as by PUT /files/:id, never with 404 or 500.
C12_UniqueViolationIsConflict ==
    \A p \in Procs :
        (procs[p].pc = "done" /\ procs[p].resp.error \in UniqueErrors)
        => procs[p].resp.status = 409

\* the record or records request p names are not in fls
TargetAbsent(fls, r) ==
    IF r.op = "deleteByRemote" THEN TupleRecords(fls, r.input) = {}
    ELSE selectById(fls, r.id) = NoFile

\* C13: getFileById, updateFile, deleteFile and deleteFileByRemote on an id or
\* tuple that no record has answer 404 and change no record and no tag;
\* deleteFile on an existing id answers success and the id has no record
\* afterwards, so that getFileById on it is answered 404.  Requests run one
\* at a time.
C13_NoMatchIsNotFound ==
    /\ [](\A p \in Procs :
            procs[p].pc = "done" =>
               /\ procs[p].op = "get" =>
                     procs[p].resp.status
                        = (IF selectById(files, procs[p].id) = NoFile THEN 404 ELSE 200)
               /\ (procs[p].op = "update" /\ selectById(files, procs[p].id) = NoFile)
                     => procs[p].resp.status = 404
               /\ procs[p].op = "delete" => selectById(files, procs[p].id) = NoFile
               /\ procs[p].op = "deleteByRemote" => TupleRecords(files, procs[p].input) = {})
    /\ [][\A p \in Procs :
            (procs'[p] # procs[p] /\ procs'[p].op \in {"get", "update", "delete", "deleteByRemote"})
            => IF TargetAbsent(files, procs'[p])
               THEN /\ files' = files
                    /\ fileTags' = fileTags
                    /\ procs'[p].pc = "done" => procs'[p].resp.status = 404
               ELSE procs'[p].op \in {"delete", "deleteByRemote"}
                       => /\ procs'[p].resp.status = 200
                          /\ TargetAbsent(files', procs'[p])]_vars

\* deleteFile of an id that no record has, on a store with records and tags
C13_Witness ==
    \E p \in Procs :
        /\ procs[p].op = "delete" /\ procs[p].pc = "done"
        /\ procs[p].resp.status = 404
        /\ files # {} /\ fileTags # {}
        /\ procs[p].id < nextId

\* C19: an update, or an upsert of an existing tuple, that completes with a
\* tags list T leaves the record with exactly the tags of T (none for the
\* empty list); without a tags field no step of it changes the record's
\* tags; a created record has exactly the tags supplied.  Requests run one at
\* a time.
C19_TagsReplaced ==
    /\ [](\A p \in Procs :
            ( /\ procs[p].pc = "done"
              /\ procs[p].op \in {"upsert", "update"}
              /\ procs[p].resp.status \in {200, 201} )
            => LET T == IF procs[p].input.tags.given
                        THEN TagSet(procs[p].input.tags.value) ELSE {}
               IN  (procs[p].input.tags.given \/ procs[p].created)
                      => /\ selectTags(fileTags, procs[p].id) = T
                         /\ procs[p].resp.file.tags = T)
    /\ [][\A p \in Procs :
            (procs'[p].op \in {"upsert", "update"} /\ ~procs'[p].input.tags.given)
            => selectTags(fileTags', procs'[p].id) = selectTags(fileTags, procs'[p].id)]_vars

\* an update with the tags list [t2] has completed on a record of name n2
C19_Witness ==
    \E p \in Procs :
        /\ procs[p].op = "update" /\ procs[p].pc = "done"
        /\ procs[p].resp.status = 200
        /\ procs[p].input.tags = Some(<<"t2">>)
        /\ procs[p].resp.file.name = "n2"
        /\ selectTags(fileTags, procs[p].id) = {"t2"}

\* the event recorded at t is more than n days old at instant at
OlderThanDays(t, n, at) == WLt(Wide(t.d + n, t.ms), at)

\* the maintenance endpoint answers in this step
CleanupAnswers == httpResp = NoResp /\ httpResp' # NoResp /\ httpResp'.kind = "cleanup"

\* C20: a cleanup with retentionDays > 0 at instant now deletes exactly the
\* events recorded more than retentionDays days before now (an event exactly
\* retentionDays days old stays), reports their number, and changes no file
\* record; with retentionDays <= 0 the endpoint answers 400 and deletes nothing.
C20_CleanupDeletesExactlyOld ==
    [][CleanupAnswers =>
          LET n == IF httpResp'.env.given THEN httpResp'.env.value ELSE 365
          IN  /\ files' = files /\ fileTags' = fileTags
              /\ IF n <= 0
                 THEN httpResp'.status = 400 /\ downloads' = downloads
                 ELSE /\ httpResp'.status = 200
                      /\ downloads' = SelectSeq(downloads,
                                         LAMBDA d : ~OlderThanDays(d.downloaded_at, n, now'))
                      /\ httpResp'.deleted = Len(downloads) - Len(downloads')
                      /\ httpResp'.retention_days = n]_vars

\* a cleanup that deleted an event and kept the event recorded exactly
\* retentionDays days before it
C20_Witness ==
    /\ httpResp # NoResp
    /\ httpResp.kind = "cleanup"
    /\ httpResp.status = 200
    /\ httpResp.deleted = 1
    /\ Len(downloads) = 1
    /\ Wide(downloads[1].downloaded_at.d + httpResp.retention_days,
            downloads[1].downloaded_at.ms) = now

-----------------------------------------------------------------------------
(* Claims on search.                                                        *)

\* the tags a query string names
ListedTags(str) == {str[i] : i \in {j \in 1..Len(str) : str[j] \notin {",", " "}}}

\* record f has the value of every equality filter P supplies
EqAccepts(f, P) ==
    /\ \A k \in {"bucket", "category", "entity", "extension", "media_type"} :
          P[k] # Undefined => f[k] = P[k]
    /\ P.deprecated # Undefined => ((f.deprecated = 1) <=> (P.deprecated = "true"))

\* record f has every tag P lists
TagsAccept(f, P) == P.tags.given => ListedTags(P.tags.value) \subseteq selectTags(fileTags, f.id)

\* a call of searchFiles by request p has returned a result
SearchReturned(p) ==
    procs[p].op = "searchFiles" /\ procs[p].pc = "done" /\ ~procs[p].resp.threw

ListMode(P) == P.group_by = Undefined
FullPage(P) == P.limit = RawAbsent /\ P.offset = RawAbsent

IdsOf(recs) == {recs[i].id : i \in 1..Len(recs)}

\* C14: with a tags filter L, whatever its spacing and repetitions, a record
\* is returned by search and counted by grouped search exactly when it has
\* every tag named in L (and satisfies the equality filters).
C14_TagsAndFilter ==
    \A p \in Procs :
        (SearchReturned(p) /\ procs[p].input.tags.given) =>
            LET P == procs[p].input
                Want == {f \in files : EqAccepts(f, P) /\ TagsAccept(f, P)}
            IN  /\ procs[p].resp.total = Cardinality(Want)
                /\ (ListMode(P) /\ FullPage(P))
                      => IdsOf(procs[p].resp.files) = {f.id : f \in Want}

\* the value of group-by field g that record rec (as returned) falls under
GroupValueOf(rec, g) ==
    IF g = "deprecated" THEN (IF rec.deprecated THEN "true" ELSE "false") ELSE rec[g]

RECURSIVE SumCounts(_)
SumCounts(groups) ==
    IF groups = <<>> THEN 0 ELSE groups[1].count + SumCounts(Tail(groups))

\* C15: the total of a grouped search is the sum of its group counts and the
\* total of the ungrouped search with the same filters; every record the
\* ungrouped search returns is counted in exactly one group.
C15_GroupedTotals ==
    \A p \in Procs :
        (SearchReturned(p) /\ ~ListMode(procs[p].input)) =>
            LET P == procs[p].input
                r == procs[p].resp
            IN  /\ r.total = SumCounts(r.groups)
                /\ \A u \in searchFilesList(files, fileTags,
                                            [P EXCEPT !.group_by = Undefined]) :
                      /\ u.total = r.total
                      /\ \A i \in 1..Len(u.files) :
                            Cardinality({j \in 1..Len(r.groups) :
                                r.groups[j].value = GroupValueOf(u.files[i], P.group_by)}) = 1
                      /\ \A j \in 1..Len(r.groups) :
                            r.groups[j].count =
                               Cardinality({i \in 1..Len(u.files) :
                                   GroupValueOf(u.files[i], P.group_by) = r.groups[j].value})

\* a search with a tags filter, grouped by deprecated, with two groups of
\* three records in all
C15_Witness ==
    \E p \in Procs :
        /\ SearchReturned(p)
        /\ procs[p].input.group_by = "deprecated"
        /\ procs[p].input.tags.given
        /\ Len(procs[p].resp.groups) = 2
        /\ procs[p].resp.groups[1].count = 2
        /\ procs[p].resp.total = 3

\* GET /files has answered request p, whose parameters other than group_by
\* are well-formed
RouteAnswered(p) ==
    /\ procs[p].op = "GET /files" /\ procs[p].pc = "done"
    /\ procs[p].input.deprecated \in {Undefined, "true", "false"}
    /\ procs[p].input.limit # RawText /\ procs[p].input.offset # RawText

\* C16: GET /files accepts group_by exactly when it is bucket, category,
\* entity, extension, media_type or deprecated: each gives a grouped result,
\* with groups in descending order of count and, for deprecated, the values
\* "true" and "false"; any other value is answered 400.
C16_GroupByAllowList ==
    \A p \in Procs :
        (RouteAnswered(p) /\ procs[p].input.group_by # Undefined) =>
            IF procs[p].input.group_by
                 \in {"bucket", "category", "entity", "extension", "media_type", "deprecated"}
            THEN /\ procs[p].resp.status = 200
                 /\ LET g == procs[p].resp.body.groups
                    IN  /\ \A i, j \in 1..Len(g) : i < j => g[i].count >= g[j].count
                        /\ procs[p].input.group_by = "deprecated"
                              => \A i \in 1..Len(g) : g[i].value \in {"true", "false"}
            ELSE procs[p].resp.status = 400

\* C17: GET /files returns, and counts in total, exactly the records that
\* have the value of every equality filter supplied; with bucket = B no
\* record of another bucket is returned.
C17_EqualityFilters ==
    \A p \in Procs :
        ( /\ RouteAnswered(p) /\ procs[p].resp.status = 200
          /\ ListMode(procs[p].input) /\ ~procs[p].input.tags.given ) =>
            LET P == procs[p].input
                body == procs[p].resp.body
                Want == {f \in files : EqAccepts(f, P)}
            IN  /\ body.total = Cardinality(Want)
                /\ IdsOf(body.files) \subseteq {f.id : f \in Want}
                /\ FullPage(P) => IdsOf(body.files) = {f.id : f \in Want}
                /\ P.bucket # Undefined
                      => \A i \in 1..Len(body.files) : body.files[i].bucket = P.bucket

Max(a, b) == IF a > b THEN a ELSE b

\* C18: a list search returns as total the number of matching records,
\* whatever limit and offset, and as files the records offset+1 ..
\* offset+min(limit, 1000) of the matching records in descending order of
\* created (limit 100 and offset 0 when left out), each with its own tags.
C18_Pagination ==
    \A p \in Procs :
        (SearchReturned(p) /\ ListMode(procs[p].input)) =>
            LET P == procs[p].input
                r == procs[p].resp
                lim == Min(IF P.limit = RawAbsent THEN 100 ELSE P.limit.val, 1000)
                off == IF P.offset = RawAbsent THEN 0 ELSE P.offset.val
                full == searchFilesList(files, fileTags,
                                        [P EXCEPT !.limit = RawAbsent, !.offset = RawAbsent])
            IN  /\ ~P.tags.given => r.total = Cardinality({f \in files : EqAccepts(f, P)})
                /\ \A u \in full :
                      /\ u.total = r.total
                      /\ Len(u.files) = r.total
                      /\ \A i, j \in 1..Len(u.files) :
                            i < j => ~WLt(u.files[i].created, u.files[j].created)
                /\ Len(r.files) = Min(lim, Max(0, r.total - off))
                /\ \E u \in full :
                      \A i \in 1..Len(r.files) : r.files[i] = u.files[off + i]
                /\ \A i \in 1..Len(r.files) :
                      /\ r.files[i].tags = selectTags(fileTags, r.files[i].id)
                      /\ \E f \in files : /\ f.id = r.files[i].id
                                          /\ LocationOf(f) = LocationOf(r.files[i])
                                          /\ f.created = r.files[i].created

\* a page of limit 2 at offset 1 of three matching records, whose two
\* records have the same created
C18_Witness ==
    \E p \in Procs :
        /\ SearchReturned(p) /\ ListMode(procs[p].input)
        /\ procs[p].input.limit = RawDigits(2) /\ procs[p].input.offset = RawDigits(1)
        /\ procs[p].resp.total = 3
        /\ Len(procs[p].resp.files) = 2
        /\ procs[p].resp.files[1].created = procs[p].resp.files[2].created
        /\ procs[p].resp.files[1].tags # procs[p].resp.files[2].tags

-----------------------------------------------------------------------------
(* Claims on retention, second part.                                        *)

\* this step is a cleanup run that follows another one of the same retention
\* with no createDownload in between
SecondCleanupStep ==
    /\ lastCleanup.runs >= 1
    /\ lastCleanup'.runs = 2
    /\ lastCleanup' # lastCleanup \/ httpResp' # httpResp
    /\ httpResp = NoResp /\ httpResp'.status = 200
    /\ lastCleanup'.retentionDays = lastCleanup.retentionDays

\* C21 as stated: a second cleanup run in a row, with no new event in
\* between, deletes 0 events and leaves the store as the first run left it.
C21_SecondRunDeletesNothing ==
    [][SecondCleanupStep =>
          /\ httpResp'.deleted = 0
          /\ downloads' = lastCleanup.left]_vars

\* C21 amended: a second cleanup run with the same cutoff (the same retention
\* and the same reading of the clock), with no new event in between, deletes
\* 0 events and leaves the store as the first run left it.
C21_SameCutoffIdempotent ==
    [][(SecondCleanupStep /\ lastCleanup'.t = lastCleanup.t) =>
          /\ httpResp'.deleted = 0
          /\ downloads' = lastCleanup.left]_vars

\* a second run at the same instant, after a first run that deleted an event
\* and kept one
C21_Witness ==
    /\ lastCleanup.runs = 2
    /\ lastCleanup.before.deleted = 1
    /\ lastCleanup.before.t = lastCleanup.t
    /\ lastCleanup.before.retentionDays = lastCleanup.retentionDays
    /\ lastCleanup.deleted = 0
    /\ Len(downloads) = 1
    /\ httpResp # NoResp /\ httpResp.status = 200

-----------------------------------------------------------------------------
(* Claims on the nested index.                                              *)

NestedIndexReturned(p) == procs[p].op = "getNestedIndex" /\ procs[p].pc = "done"

\* the entry the nested index shows for stored row f
EntryOf(f) == [last_updated |-> f.updated,
               name |-> IF f.name = Null THEN Undefined ELSE f.name]

\* C22: the (entity, extension) pairs of the nested index are exactly the
\* pairs of the records matching the filters, no entity maps to an empty map,
\* and the entry of a pair is built from the last record of that pair in the
\* scan, which is in (entity, extension) order.
C22_NestedIndexPairs ==
    \A p \in Procs :
        NestedIndexReturned(p) =>
            LET P == procs[p].input
                idx == procs[p].resp.index
                scan == procs[p].resp.scanned
                M == whereRows(files, fileTags, P)
                Row(i) == CHOOSE f \in files : f.id = scan[i]
            IN  /\ ~P.tags.given => M = {f \in files : EqAccepts(f, P)}
                /\ {scan[i] : i \in 1..Len(scan)} = {f.id : f \in M}
                /\ Len(scan) = Cardinality(M)
                /\ \A i, j \in 1..Len(scan) : i < j => ~scanBefore(Row(j), Row(i))
                /\ DOMAIN idx = {f.entity : f \in M}
                /\ \A e \in DOMAIN idx :
                      /\ DOMAIN idx[e] # {}
                      /\ DOMAIN idx[e] = {f.extension : f \in {g \in M : g.entity = e}}
                      /\ \A x \in DOMAIN idx[e] :
                            LET last == CHOOSE i \in 1..Len(scan) :
                                          /\ Row(i).entity = e /\ Row(i).extension = x
                                          /\ \A j \in 1..Len(scan) :
                                                (Row(j).entity = e /\ Row(j).extension = x)
                                                   => j <= i
                            IN  idx[e][x] = EntryOf(Row(last))

\* an index of two entities, one with two extensions, where two matching
\* records share a pair and the entry shown is the second one scanned
C22_Witness ==
    \E p \in Procs :
        /\ NestedIndexReturned(p)
        /\ Cardinality(DOMAIN procs[p].resp.index) = 1
        /\ Len(procs[p].resp.scanned) = 3
        /\ procs[p].resp.scanned[1] = 2
        /\ procs[p].resp.scanned[2] = 1
        /\ DOMAIN procs[p].resp.index["e1"] = {"x1", "x2"}
        /\ procs[p].resp.index["e1"]["x1"].name = Undefined

-----------------------------------------------------------------------------
(* Claims on analytics.                                                     *)

\* the positions of the events of location filter flt downloaded in
\* [start, end], both bounds included
EventsIn(start, end, flt) ==
    {i \in 1..Len(downloads) :
        /\ \A k \in {"bucket", "remote_path", "remote_filename", "remote_version"} :
              flt[k] # Undefined => downloads[i][k] = flt[k]
        /\ ~WLt(downloads[i].downloaded_at, start)
        /\ ~WLt(end, downloads[i].downloaded_at)}

\* list L ranks the n most-downloaded present user agents of events E
RanksUserAgents(L, E, n) ==
    LET U == {downloads[i].user_agent : i \in E} \ {Null}
        Count(u) == Cardinality({i \in E : downloads[i].user_agent = u})
    IN  /\ Len(L) = Min(n, Cardinality(U))
        /\ \A i \in 1..Len(L) : L[i].user_agent \in U /\ L[i].downloads = Count(L[i].user_agent)
        /\ \A i, j \in 1..Len(L) : i < j => /\ L[i].user_agent # L[j].user_agent
                                            /\ L[i].downloads >= L[j].downloads
        /\ \A u \in U \ {L[i].user_agent : i \in 1..Len(L)} :
              \A i \in 1..Len(L) : Count(u) <= L[i].downloads

\* C23: getSummary.top_user_agents lists the 10, and getUserAgentStats the
\* cap (default 20, at most 100), most-downloaded present user agents of the
\* matching events, by download count descending; events without a user
\* agent take none of the places.
C23_UserAgentRanking ==
    /\ (anaCall.called /\ anaCall.fn = "getSummary") =>
          RanksUserAgents(anaCall.out.top_user_agents,
                          EventsIn(anaCall.start, anaCall.end, anaCall.filter), 10)
    /\ (httpResp.status = 200 /\ httpResp.kind = "user-agents") =>
          LET P == httpResp.params
              E == EventsIn(P.start.val, P.end.val,
                            [bucket |-> P.bucket, remote_path |-> P.remote_path,
                             remote_filename |-> P.remote_filename,
                             remote_version |-> P.remote_version])
              n == Min(IF P.limit = RawAbsent THEN 20 ELSE P.limit.val, 100)
          IN  /\ RanksUserAgents(httpResp.data, E, n)
              /\ \A i \in 1..Len(httpResp.data) :
                    httpResp.data[i].unique_ips =
                       Cardinality({downloads[k].ip_address :
                          k \in {j \in E : downloads[j].user_agent = httpResp.data[i].user_agent}})

\* C24: getSummary returns the number of events matching the file filter in
\* [start, end], both bounds included, and the number of distinct IP
\* addresses among them; both are 0 when nothing matches and unique <= total.
C24_SummaryTotals ==
    (anaCall.called /\ anaCall.fn = "getSummary") =>
        LET E == EventsIn(anaCall.start, anaCall.end, anaCall.filter)
        IN  /\ anaCall.out.total_downloads = Cardinality(E)
            /\ anaCall.out.unique_downloads = Cardinality({downloads[i].ip_address : i \in E})
            /\ anaCall.out.unique_downloads <= anaCall.out.total_downloads
            /\ E = {} => anaCall.out.total_downloads = 0 /\ anaCall.out.unique_downloads = 0

\* a one-instant range that holds two of three events, both of one address
C24_Witness ==
    /\ anaCall.called /\ anaCall.fn = "getSummary"
    /\ anaCall.start = T_Feb1 /\ anaCall.end = T_Feb1
    /\ Len(downloads) = 3
    /\ anaCall.out.total_downloads = 2
    /\ anaCall.out.unique_downloads = 1

RECURSIVE Perms(_)
Perms(S) ==
    IF S = {} THEN {<<>>}
    ELSE UNION {{<<x>> \o rest : rest \in Perms(S \ {x})} : x \in S}

\* C25: GET /analytics/by-ip returns as total the number of events of the
\* address in [start, end], whatever limit and offset, and as downloads the
\* slice [offset, offset + limit) of those events by downloaded_at
\* non-increasing; without ip the request is answered 400 and no query runs.
C25_ByIp ==
    (httpResp # NoResp /\ httpResp.status # 0 /\ httpResp.kind = "by-ip") =>
        LET P == httpResp.params
        IN  /\ P.ip \in {Undefined, ""} => httpResp.status = 400 /\ anaCall = NoCall
            /\ httpResp.status = 200 =>
                  LET E == {i \in 1..Len(downloads) :
                              /\ downloads[i].ip_address = P.ip
                              /\ ~WLt(downloads[i].downloaded_at, P.start.val)
                              /\ ~WLt(P.end.val, downloads[i].downloaded_at)}
                      lim == Min(IF P.limit = RawAbsent THEN 100 ELSE P.limit.val, 1000)
                      off == IF P.offset = RawAbsent THEN 0 ELSE P.offset.val
                      page == httpResp.body.downloads
                  IN  /\ httpResp.body.total = Cardinality(E)
                      /\ Len(page) = Min(lim, Max(0, Cardinality(E) - off))
                      /\ \E perm \in Perms(E) :
                            /\ \A i, j \in 1..Len(perm) :
                                  i < j => ~WLt(downloads[perm[i]].downloaded_at,
                                                downloads[perm[j]].downloaded_at)
                            /\ \A k \in 1..Len(page) :
                                  LET d == downloads[perm[off + k]]
                                  IN  page[k] = [bucket |-> d.bucket,
                                                 remote_path |-> d.remote_path,
                                                 remote_filename |-> d.remote_filename,
                                                 remote_version |-> d.remote_version,
                                                 downloaded_at |-> d.downloaded_at,
                                                 user_agent |-> d.user_agent]

\* the second of three events of one address, the log holding an event of
\* another address as well
C25_Witness ==
    /\ httpResp # NoResp /\ httpResp.status = 200 /\ httpResp.kind = "by-ip"
    /\ httpResp.params.limit = RawDigits(1) /\ httpResp.params.offset = RawDigits(1)
    /\ httpResp.body.total = 2
    /\ Len(httpResp.body.downloads) = 1
    /\ Len(downloads) = 3
    /\ httpResp.body.downloads[1].downloaded_at = T_JanEnd

-----------------------------------------------------------------------------
(* Claims on the file id of time-series rows.                               *)

\* C26: each file row of a time-series bucket carries the id of the current
\* record of its location tuple, or null when there is none, and its
\* download count is that of the tuple's events whether or not a record
\* exists; recording a download needs no record, and no change of the file
\* index removes a download event.
C26_FileIdOfCurrentRecord ==
    /\ [](tsCall.called =>
            \A n \in 1..Len(tsCall.out) :
                \A m \in 1..Len(tsCall.out[n].files) :
                    LET row == tsCall.out[n].files[m]
                        cur == {f \in files : LocationOf(f) = LocationOf(row)}
                    IN  /\ Cardinality(cur) <= 1
                        /\ row.id = IF cur = {} THEN NoId ELSE (CHOOSE f \in cur : TRUE).id
                        /\ row.downloads
                              = Cardinality(TsEventsOf(tsCall.out[n].timestamp, LocationOf(row))))
    /\ [][/\ files' # files => downloads' = downloads
          /\ dlResp' # dlResp => downloads' = Append(downloads, dlResp')]_vars

\* after the only record was deleted, a bucket lists its location with two
\* downloads and a null id
C26_Witness ==
    /\ tsCall.called
    /\ files = {}
    /\ \E n \in 1..Len(tsCall.out) :
          \E m \in 1..Len(tsCall.out[n].files) :
              /\ LocationOf(tsCall.out[n].files[m]) = LocA
              /\ tsCall.out[n].files[m].id = NoId
              /\ tsCall.out[n].files[m].downloads = 2

-----------------------------------------------------------------------------
(* Claims on failing and racing tag replacements.                           *)

\* C27: when the tag insert of an update fails after its UPDATE of the record
\* succeeded (a tags list that repeats a tag), the record has its fields
\* updated and the tag set it had before the request.  Requests run one at a
\* time.
C27_FailedInsertKeepsOldTags ==
    \A p \in Procs :
        ( /\ procs[p].op = "update" /\ procs[p].pc = "done"
          /\ procs[p].resp.error = "UNIQUE constraint failed: file_tags" )
        => LET f == selectById(files, procs[p].id)
           IN  /\ f # NoFile
               /\ f.updated = procs[p].t
               /\ procs[p].input.name # Undefined => f.name = procs[p].input.name
               /\ selectTags(fileTags, procs[p].id) = procs[p].raw.tags

\* request p has replaced the tags of record id and was answered 200
ReplacedTags(p, id) ==
    /\ procs[p].pc = "done" /\ procs[p].resp.status = 200
    /\ procs[p].id = id
    /\ procs[p].op = "update" \/ (procs[p].op = "upsert" /\ ~procs[p].resp.created)
    /\ procs[p].input.tags.given

TagListOf(p) ==
    {procs[p].input.tags.value[i] : i \in DOMAIN procs[p].input.tags.value}

\* C28: when two requests that each replaced the tags of the same record have
\* both completed successfully (and no other request is running), the record's
\* tags are the tag list of one of the two, never a union or mixture.
C28_TagsOfOneRequest ==
    \A p, q \in Procs : \A id \in 1..MaxTargetId :
        ( /\ p # q
          /\ ReplacedTags(p, id) /\ ReplacedTags(q, id)
          /\ \A r \in Procs \ {p, q} : ~InFlight(r)
          /\ selectById(files, id) # NoFile )
        => selectTags(fileTags, id) \in {TagListOf(p), TagListOf(q)}

-----------------------------------------------------------------------------
(* Claims on getTimeSeries next to writers of the log.                      *)

\* getTimeSeries has returned
ScanDone == tsCall # NoCall /\ "out" \in DOMAIN tsCall

-----------------------------------------------------------------------------
(* Invariants of the file index under concurrent requests.                  *)

\* no two records share an id, updated is not before created, and every tag
\* row belongs to a record
FilesWellFormed ==
    /\ \A f, g \in files : f.id = g.id => f = g
    /\ \A f \in files : WLe(f.created, f.updated)
    /\ \A x \in fileTags : \E f \in files : f.id = x[1]

FileIds(fls) == {f.id : f \in fls}

\* a step that neither adds nor removes a record keeps the ids, and every
\* step keeps the created of the records it keeps
KeepsIdAndCreated ==
    /\ Cardinality(files') = Cardinality(files) => FileIds(files') = FileIds(files)
    /\ Cardinality(files') > Cardinality(files) => FileIds(files) \subseteq FileIds(files')
    /\ Cardinality(files') < Cardinality(files) => FileIds(files') \subseteq FileIds(files)
    /\ \A f \in files : \A g \in files' : g.id = f.id => g.created = f.created

\* a step of an upsert on an existing tuple keeps deprecated and deprecation_reason
UpsertKeepsDeprecation ==
    \A p \in Procs :
        (procs[p].op = "upsert" /\ ~procs[p].created /\ procs'[p] # procs[p])
        => \A f \in files : \A g \in files' :
              g.id = f.id => /\ g.deprecated = f.deprecated
                             /\ g.deprecation_reason = f.deprecation_reason

\* C30: under any interleaving of create, upsert, update and delete: a record's
\* id and created never change and updated >= created; every tag row refers
\* to an existing record; an upsert on an existing tuple leaves deprecated and
\* deprecation_reason unchanged.
C30_FileInvariants ==
    /\ []FilesWellFormed
    /\ [][KeepsIdAndCreated /\ UpsertKeepsDeprecation]_vars

\* an upsert on the tuple of a deprecated record has answered 200 with the
\* record still deprecated and updated after its creation
C30_Witness ==
    \E p \in Procs :
        /\ procs[p].op = "upsert" /\ procs[p].pc = "done"
        /\ procs[p].resp.status = 200
        /\ procs[p].resp.file # NoFile
        /\ procs[p].resp.file.deprecated
        /\ WLt(procs[p].resp.file.created, procs[p].resp.file.updated)

====
